---- MODULE Spec2Model ----
(***************************************************************************)
(* Model of the incremental cache and the name resolver of rusty-refactor  *)
(* (rust-backend/src/cache.rs, name_resolution.rs, lib.rs).                *)
(*   Spec         the cache, one call at a time on one instance: the hot   *)
(*                tier, the disk tier, the index with its statistics and   *)
(*                the file system; between calls the environment edits or  *)
(*                deletes files, time passes, the process restarts.        *)
(*   SpecReload   the cache for one path over restarts, with a saved index *)
(*                and a change of the environment in one run, compression  *)
(*                on or off, and a clock that may be set back.             *)
(*   SpecMutate   the cache changed by put, invalidate and clear only.     *)
(*   SpecConc     two threads calling get and put for one path.            *)
(*   SpecLock     two threads calling get, put, invalidate, clear, stats   *)
(*                and save_index, the locks taken and released in steps;   *)
(*                SpecLockFair adds the scheduler's fairness.              *)
(*   SpecResolve  resolve_project over a resolver with a cache.            *)
(*   SpecMatch    find_matches_for_types and the match scoring.            *)
(*   SpecStd      a resolver being configured and asked for get_std_items. *)
(***************************************************************************)
EXTENDS Integers, Sequences, FiniteSets, TLC

\* ------------------------------------------------------------------ bounds
MaxTime == 2        \* the clock runs 0..MaxTime
MaxPuts == 2        \* successful puts per run (stats.misses <= MaxPuts)
MaxHits == 1        \* disk-tier hits per run (stats.hits <= MaxHits)
MaxSaves == 1       \* save_index calls per run
MaxEnv == 1         \* changes of the environment (files, clock) per run
MaxOps == 2         \* calls each thread makes in a concurrent run
MaxItems == 3       \* items in a catalog handed to the matcher
MaxTypes == 2       \* unresolved type names in one request
MaxSuggestions == 2 \* largest max_suggestions of a resolver
MaxCalls == 3       \* calls of get_std_items on one resolver

\* ------------------------------------------------------- program constants
CACHE_VERSION == 1
DEFAULT_MAX_SUGGESTIONS == 50

\* ---------------------------------------------------------------- domains
\* Path spellings handed to the cache; "./a.rs" is a second spelling of "a.rs".
Paths == {"a.rs", "./a.rs", "b.rs"}
\* Canonical (absolute, symlink-free) paths of the source files.
CanonPaths == {"/ws/a.rs", "/ws/b.rs"}
\* The source file that is edited and deleted while the cache runs.
EditedPaths == {"/ws/a.rs"}
\* The one dependency path that metadata may list.
DepPath == "/ws/dep.rs"
\* File contents (opaque byte strings, named by a number).
Contents == {1, 2}
\* Payload handed to put as hir_data / mir_data (byte sequences).
Payloads == {<<7>>}

None == <<>>
Some(x) == <<x>>

\* CacheMetadata values a caller may pass (rustc_version is "1.70.0",
\* analysis_duration_ms and file_mtime are fixed).
Metadatas ==
    { [rustc_version |-> "1.70.0", dependencies |-> deps, file_mtime |-> 0,
       analysis_duration_ms |-> 100, file_size |-> sz] :
         deps \in {<<>>, <<DepPath>>}, sz \in {12} }

\* CacheOptions the instance may be built with: the size limit admits one
\* serialized entry (80 or 98 bytes), not two.
OptionSets ==
    { [max_size_bytes |-> sz, max_age_secs |-> age, compress_data |-> cd,
       use_mmap |-> TRUE, max_memory_entries |-> mm] :
         sz \in {100}, age \in {1}, cd \in {FALSE}, mm \in {1} }

\* ---------------------------------------------------------------- helpers
Insert(f, k, v) == [x \in (DOMAIN f) \cup {k} |-> IF x = k THEN v ELSE f[x]]
Remove(f, k) == [x \in (DOMAIN f) \ {k} |-> f[x]]
EmptyMap == [x \in {} |-> 0]

\* The path resolve_project hands to the cache: workspace_root joined with
\* "name_resolution", and its canonical form.
ResolutionPath == "name_resolution"
ResolutionCanon == "/ws/name_resolution"

\* std::fs::canonicalize on the path spellings of the model.
CanonOf(p) ==
    IF p = "b.rs" THEN "/ws/b.rs"
    ELSE IF p = ResolutionPath THEN ResolutionCanon
    ELSE "/ws/a.rs"

\* DefaultHasher over the canonical path, formatted {:016x}: a fixed
\* injective map on the canonical paths of the model.
PathHashHex(c) ==
    IF c = "/ws/a.rs" THEN "00000000000000a1"
    ELSE IF c = ResolutionCanon THEN "00000000000000d4"
    ELSE "00000000000000b2"

Keys == { PathHashHex(c) : c \in CanonPaths }

\* calculate_hash: DefaultHasher over the bytes; injective on Contents.
calculate_hash(data) == 1000 + data

\* zstd bulk compression of a payload: a frame around the bytes.
compress(data) == <<"zstd">> \o data

\* Length in bytes of a string of the model (bincode writes the bytes).
StrLen(s) ==
    IF s = "1.70.0" THEN 6
    ELSE IF s = DepPath THEN 10
    ELSE 0

RECURSIVE DepsLen(_)
DepsLen(deps) ==
    IF deps = <<>> THEN 0 ELSE 8 + StrLen(Head(deps)) + DepsLen(Tail(deps))

\* bincode::serialize(&entry).len(): u64 fields take 8 bytes, a Vec or a
\* String takes an 8-byte length and its elements.
SerializedLen(entry) ==
    8 + 8 + (8 + Len(entry.hir_data)) + (8 + Len(entry.mir_data))
      + (8 + StrLen(entry.metadata.rustc_version))
      + (8 + DepsLen(entry.metadata.dependencies))
      + 8 + 8 + 8

\* A cache file as bincode::serialize wrote it: the bytes decode to the entry.
serialize(entry) == [ok |-> TRUE, data |-> Some(entry), len |-> SerializedLen(entry)]
\* A cache file that bincode::deserialize rejects (truncated or damaged).
CorruptFile == [ok |-> FALSE, data |-> None, len |-> 0]

EmptyStats == [hits |-> 0, misses |-> 0, size_bytes |-> 0, entry_count |-> 0]
EmptyIndex ==
    [file_to_key |-> EmptyMap, entries |-> EmptyMap, stats |-> EmptyStats,
     version |-> CACHE_VERSION]

SatSub(a, b) == IF a >= b THEN a - b ELSE 0

\* An index file written by a build with another CACHE_VERSION.
ForeignIndexFile ==
    [file_to_key |-> [x \in {"a.rs"} |-> "00000000000000a1"],
     entries |-> [x \in {"00000000000000a1"} |->
                    [rustc_version |-> "1.70.0", dependencies |-> <<>>,
                     file_mtime |-> 0, analysis_duration_ms |-> 100,
                     file_size |-> 12]],
     stats |-> [hits |-> 1, misses |-> 1, size_bytes |-> 80, entry_count |-> 1],
     version |-> CACHE_VERSION + 1]

\* A run spends its budget on changes of the environment or on saving the
\* index.
Budgets == {[env |-> MaxEnv, saves |-> 0], [env |-> 0, saves |-> MaxSaves]}

\* Threads that call one cache instance in parallel, the path they all use
\* and the payloads and metadata they put.
Threads == {1, 2}
ConcPath == "a.rs"
ConcPayloads == {<<7>>, <<8>>}
ConcMetadata ==
    [rustc_version |-> "1.70.0", dependencies |-> <<>>, file_mtime |-> 0,
     analysis_duration_ms |-> 100, file_size |-> 12]

\* A thread outside any call, having made ops calls.
IdleThread(ops, ret) ==
    [pc |-> "idle", ops |-> ops, entry |-> None, buf |-> None, ret |-> ret]
\* The sequential specification runs no thread.
NoThreads == [t \in {} |-> 0]

\* ------------------------------------------------------------------ state
VARIABLES
    fs,            \* canonical source path -> None | Some(content)
    dep,           \* the dependency file: [exists, mtime]
    now,           \* current_timestamp()
    fs_options,    \* CacheOptions of the instance
    memory_cache,  \* hot tier: key -> CacheEntry
    cache_files,   \* disk tier: key -> file "<key>.cache"
    index_file,    \* None | Some(CacheIndex): ".rusty-cache/index.bin"
    index,         \* the in-memory CacheIndex
    last,          \* the call (or event) that just happened and how it ended
    script,        \* progress of the run get-miss, put, get-hit from fresh
    invalidated,   \* keys invalidated with no put call on them since
    cleared,       \* clear() returned and no put call since
    budget,        \* what the run may still do: [env, saves]
    threads        \* thread -> the call it is in, its position, inputs, locals
                   \* and result

vars == <<fs, dep, now, fs_options, memory_cache, cache_files, index_file,
          index, last, script, invalidated, cleared, budget, threads>>

env == <<fs, dep, now>>

\* ------------------------------------------------------- private helpers
\* std::fs::canonicalize succeeds only for an existing file.
KeyOk(p) == fs[CanonOf(p)] # None
\* get_cache_key hashing the path as it is spelled.
get_cache_key_spelled(p) ==
    IF p = "./a.rs" THEN "00000000000000c3" ELSE PathHashHex(CanonOf(p))

\* get_cache_key, for a path that canonicalizes.
get_cache_key(p) == PathHashHex(CanonOf(p))

current_timestamp == now

\* Timestamps are u64; the model keeps them at 16 bits.
TimestampRange == 65536
\* now - entry.created_at on u64 in a build without overflow checks.
wrapping_sub(a, b) == (a - b + TimestampRange) % TimestampRange

file_mtime(path) == dep.mtime

\* NewEntry with the fingerprint taken before the file was read.
NewEntryNoContent(content, hir_data, mir_data, metadata) ==
    [file_hash |-> calculate_hash(0),
     created_at |-> current_timestamp,
     hir_data |-> IF fs_options.compress_data THEN compress(hir_data) ELSE hir_data,
     mir_data |-> IF fs_options.compress_data THEN compress(mir_data) ELSE mir_data,
     metadata |-> metadata]

\* The CacheEntry that put builds.
NewEntry(content, hir_data, mir_data, metadata) ==
    [file_hash |-> calculate_hash(content),
     created_at |-> current_timestamp,
     hir_data |-> IF fs_options.compress_data THEN compress(hir_data) ELSE hir_data,
     mir_data |-> IF fs_options.compress_data THEN compress(mir_data) ELSE mir_data,
     metadata |-> metadata]

\* The dependency loop of is_entry_valid: every dependency exists and is
\* not newer than the entry.
RECURSIVE DepsFresh(_, _)
DepsFresh(deps, created_at) ==
    IF deps = <<>> THEN TRUE
    ELSE IF ~dep.exists THEN FALSE
    ELSE IF file_mtime(Head(deps)) > created_at THEN FALSE
    ELSE DepsFresh(Tail(deps), created_at)

\* is_entry_valid comparing the age as a signed difference.
is_entry_valid_signed_age(p, entry) ==
    IF calculate_hash(fs[CanonOf(p)][1]) # entry.file_hash THEN FALSE
    ELSE IF fs_options.max_age_secs > 0
            /\ current_timestamp - entry.created_at > fs_options.max_age_secs
         THEN FALSE
    ELSE DepsFresh(entry.metadata.dependencies, entry.created_at)

\* is_entry_valid, called with the source file present, in a build whose
\* subtraction wraps.
is_entry_valid(p, entry) ==
    IF calculate_hash(fs[CanonOf(p)][1]) # entry.file_hash THEN FALSE
    ELSE IF fs_options.max_age_secs > 0
            /\ wrapping_sub(current_timestamp, entry.created_at)
                 > fs_options.max_age_secs
         THEN FALSE
    ELSE DepsFresh(entry.metadata.dependencies, entry.created_at)

\* cleanup_old_entries: compares stats.size_bytes with the limit and prints
\* a message; nothing is removed.
cleanup_old_entries(st) ==
    IF fs_options.max_size_bytes > 0
         /\ st.index.stats.size_bytes > fs_options.max_size_bytes
    THEN st
    ELSE st

\* load_index dropping the statistics of the saved index.
load_index_resets_stats(saved) ==
    IF saved.version # CACHE_VERSION THEN EmptyIndex
    ELSE [saved EXCEPT !.stats = EmptyStats]

\* load_index without the version check.
load_index_any_version(saved) == saved

\* load_index: an index of another version is replaced by an empty one.
load_index(saved) == IF saved.version # CACHE_VERSION THEN EmptyIndex ELSE saved

\* The state of the cache that a call reads and writes.
CacheState == [memory_cache |-> memory_cache, cache_files |-> cache_files,
               index |-> index]

Outcome(kind, val, st) == [kind |-> kind, val |-> val, st |-> st]

\* ------------------------------------------------------------------ get
\* get(file_path): the result ("Some" entry, "None" or "Err") and the
\* state it leaves.
GetFromMemory(entry) == Outcome("Some", Some(entry), CacheState)

GetUndecodable(key) == Outcome("Err", None, CacheState)

\* GetAbsent counting the miss at get time.
GetAbsentCounted ==
    Outcome("None", None, [CacheState EXCEPT !.index.stats.misses = @ + 1])

\* Neither tier has the key: None, nothing touched.
GetAbsent == Outcome("None", None, CacheState)

\* GetInvalid leaving the cache file in place.
GetInvalidKeepsFile(key) == Outcome("None", None, CacheState)

GetInvalid(key) ==
    Outcome("None", None, [CacheState EXCEPT !.cache_files = Remove(@, key)])

\* GetFromDisk answering None for a valid disk-tier entry.
GetFromDiskDropped(key, entry) == Outcome("None", None, CacheState)

GetFromDisk(key, entry) ==
    Outcome("Some", Some(entry),
        [CacheState EXCEPT
           !.memory_cache =
               IF Cardinality(DOMAIN memory_cache) < fs_options.max_memory_entries
               THEN Insert(@, key, entry) ELSE @,
           !.index.stats.hits = @ + 1])

get(p) ==
    IF ~KeyOk(p) THEN Outcome("Err", None, CacheState)
    ELSE LET key == get_cache_key(p) IN
      IF key \in DOMAIN memory_cache THEN GetFromMemory(memory_cache[key])
      ELSE IF key \notin DOMAIN cache_files THEN GetAbsent
      ELSE IF ~cache_files[key].ok THEN GetUndecodable(key)
      ELSE LET entry == cache_files[key].data[1] IN
        IF ~is_entry_valid(p, entry) THEN GetInvalid(key)
        ELSE GetFromDisk(key, entry)

\* Whether get(p) reaches `now - entry.created_at` with an entry created
\* after now: the subtraction overflows, and a build with overflow checks
\* panics there.
age_check_overflows(p) ==
    /\ KeyOk(p)
    /\ get_cache_key(p) \notin DOMAIN memory_cache
    /\ get_cache_key(p) \in DOMAIN cache_files
    /\ cache_files[get_cache_key(p)].ok
    /\ LET entry == cache_files[get_cache_key(p)].data[1]
       IN /\ calculate_hash(fs[CanonOf(p)][1]) = entry.file_hash
          /\ fs_options.max_age_secs > 0
          /\ current_timestamp < entry.created_at

\* ------------------------------------------------------------------ put
\* An I/O fault injected into put: none, canonicalize fails, the cache file
\* cannot be created, or the write stops after the file was truncated.
PutFaults == {"none", "canonicalize", "create", "write"}

\* PutFailed with the index updated before the cache file is written.
PutFailedAfterIndex(key, fault) ==
    Outcome("Err", None,
        [CacheState EXCEPT
           !.index.stats.misses = @ + 1,
           !.cache_files = IF fault = "write" THEN Insert(@, key, CorruptFile) ELSE @])

PutFailed(key, fault) ==
    Outcome("Err", None,
        IF fault = "write"
        THEN [CacheState EXCEPT !.cache_files = Insert(@, key, CorruptFile)]
        ELSE CacheState)

\* PutIndex counting an entry only when its key is new.
PutIndexCountsNewKeys(p, key, metadata, serialized) ==
    [index EXCEPT
       !.file_to_key = Insert(@, p, key),
       !.entries = Insert(@, key, metadata),
       !.stats.misses = @ + 1,
       !.stats.size_bytes =
          IF key \in DOMAIN index.entries THEN @ ELSE @ + serialized.len,
       !.stats.entry_count =
          IF key \in DOMAIN index.entries THEN @ ELSE @ + 1]

PutIndex(p, key, metadata, serialized) ==
    [index EXCEPT
       !.file_to_key = Insert(@, p, key),
       !.entries = Insert(@, key, metadata),
       !.stats.misses = @ + 1,
       !.stats.size_bytes = @ + serialized.len,
       !.stats.entry_count = @ + 1]

put(p, hir_data, mir_data, metadata, fault) ==
    IF fs[CanonOf(p)] = None THEN Outcome("Err", None, CacheState)
    ELSE LET entry == NewEntry(fs[CanonOf(p)][1], hir_data, mir_data, metadata)
             key == get_cache_key(p)
             serialized == serialize(entry)
         IN IF fault # "none" THEN PutFailed(key, fault)
            ELSE Outcome("Ok", None,
                   cleanup_old_entries(
                     [cache_files |-> Insert(cache_files, key, serialized),
                      index |-> PutIndex(p, key, metadata, serialized),
                      memory_cache |-> Insert(memory_cache, key, entry)]))

\* ----------------------------------------------------------- invalidate
InvalidateIndex(p, key) ==
    IF key \in DOMAIN index.entries
    THEN [index EXCEPT
            !.file_to_key = Remove(@, p),
            !.entries = Remove(@, key),
            !.stats.size_bytes = SatSub(@, index.entries[key].file_size),
            !.stats.entry_count = SatSub(@, 1)]
    ELSE [index EXCEPT !.file_to_key = Remove(@, p)]

\* invalidate leaving the cache file on disk.
invalidate_keeps_file(p) ==
    IF ~KeyOk(p) THEN Outcome("Err", None, CacheState)
    ELSE LET key == get_cache_key(p) IN
      Outcome("Ok", None,
        [memory_cache |-> Remove(memory_cache, key),
         cache_files |-> cache_files,
         index |-> InvalidateIndex(p, key)])

invalidate(p) ==
    IF ~KeyOk(p) THEN Outcome("Err", None, CacheState)
    ELSE LET key == get_cache_key(p) IN
      Outcome("Ok", None,
        [memory_cache |-> Remove(memory_cache, key),
         cache_files |-> Remove(cache_files, key),
         index |-> InvalidateIndex(p, key)])

\* ---------------------------------------------------------------- clear
\* ClearedIndex with the statistics kept.
ClearedIndexKeepsStats ==
    [index EXCEPT !.file_to_key = EmptyMap, !.entries = EmptyMap]

ClearedIndex ==
    [index EXCEPT !.file_to_key = EmptyMap, !.entries = EmptyMap,
                  !.stats = EmptyStats]

\* ------------------------------------------------------------------- Init
\* A new cache in a workspace without cache directory.
Init ==
    /\ fs = [c \in CanonPaths |-> Some(1)]
    /\ dep = [exists |-> TRUE, mtime |-> 0]
    /\ now = 0
    /\ fs_options \in OptionSets
    /\ memory_cache = EmptyMap
    /\ cache_files = EmptyMap
    /\ index_file = None
    /\ index = EmptyIndex
    /\ last = [op |-> "new", kind |-> "Ok"]
    /\ script = [phase |-> 0, path |-> ""]
    /\ invalidated = {}
    /\ cleared = FALSE
    /\ budget \in Budgets
    /\ threads = NoThreads

ScriptOff == [phase |-> 9, path |-> ""]

Apply(st) ==
    /\ memory_cache' = st.memory_cache
    /\ cache_files' = st.cache_files
    /\ index' = st.index

\* ---------------------------------------------------------------- actions
\* get(p); where the age subtraction overflows the build decides between
\* wrapping and a panic.
Get(p) ==
    \E overflow_checks \in IF age_check_overflows(p) THEN BOOLEAN ELSE {FALSE} :
    LET r == IF overflow_checks THEN Outcome("Panic", None, CacheState)
             ELSE get(p) IN
    /\ r.st.index.stats.hits <= MaxHits
    /\ Apply(r.st)
    /\ last' = [op |-> "get", kind |-> r.kind]
    /\ script' =
         IF script.phase = 0 /\ r.kind = "None" THEN [phase |-> 1, path |-> p]
         ELSE IF script.phase = 2 /\ script.path = p /\ r.kind = "Some"
           THEN [phase |-> 3, path |-> p]
         ELSE ScriptOff
    /\ UNCHANGED <<env, fs_options, index_file, invalidated, cleared, budget,
                   threads>>

Put(p, hir_data, mir_data, metadata, fault) ==
    LET r == put(p, hir_data, mir_data, metadata, fault) IN
    /\ index.stats.misses < MaxPuts
    /\ Apply(r.st)
    /\ last' = [op |-> "put", kind |-> r.kind]
    /\ script' =
         IF script.phase = 1 /\ script.path = p /\ r.kind = "Ok"
         THEN [phase |-> 2, path |-> p] ELSE ScriptOff
    /\ invalidated' = invalidated \ {get_cache_key(p)}
    /\ cleared' = FALSE
    /\ UNCHANGED <<env, fs_options, index_file, budget, threads>>

Invalidate(p) ==
    LET r == invalidate(p) IN
    /\ Apply(r.st)
    /\ last' = [op |-> "invalidate", kind |-> r.kind]
    /\ script' = ScriptOff
    /\ invalidated' =
         IF r.kind = "Ok" THEN invalidated \cup {get_cache_key(p)} ELSE invalidated
    /\ UNCHANGED <<env, fs_options, index_file, cleared, budget, threads>>

Clear ==
    /\ memory_cache' = EmptyMap
    /\ cache_files' = EmptyMap
    /\ index_file' = None
    /\ index' = ClearedIndex
    /\ last' = [op |-> "clear", kind |-> "Ok"]
    /\ script' = ScriptOff
    /\ cleared' = TRUE
    /\ UNCHANGED <<env, fs_options, invalidated, budget, threads>>

SaveIndex ==
    /\ budget.saves > 0
    /\ budget' = [budget EXCEPT !.saves = @ - 1]
    /\ index_file' = Some(index)
    /\ last' = [op |-> "save_index", kind |-> "Ok"]
    /\ script' = ScriptOff
    /\ UNCHANGED <<env, fs_options, memory_cache, cache_files, index,
                   invalidated, cleared, threads>>

\* with_options: the process starts again on the same workspace.
Restart ==
    /\ memory_cache' = EmptyMap
    /\ index' = IF index_file = None THEN EmptyIndex ELSE load_index(index_file[1])
    /\ last' = [op |-> "new", kind |-> "Ok"]
    /\ script' = ScriptOff
    /\ UNCHANGED <<env, fs_options, cache_files, index_file, invalidated, cleared,
                   budget, threads>>

\* ----------------------------------------------------------- environment
EnvStep ==
    /\ budget.env > 0
    /\ budget' = [budget EXCEPT !.env = @ - 1]
    /\ last' = [op |-> "env", kind |-> "Ok"]
    /\ script' = ScriptOff
    /\ UNCHANGED <<fs_options, memory_cache, cache_files, index_file, index,
                   invalidated, cleared, threads>>

\* The source file is rewritten with other bytes (or created).
EditFile(c, content) ==
    /\ fs[c] # Some(content)
    /\ fs' = [fs EXCEPT ![c] = Some(content)]
    /\ UNCHANGED <<dep, now>>
    /\ EnvStep

DeleteFile(c) ==
    /\ fs[c] # None
    /\ fs' = [fs EXCEPT ![c] = None]
    /\ UNCHANGED <<dep, now>>
    /\ EnvStep

\* The dependency is written, or its modification time is set, to m.
TouchDep(m) ==
    /\ dep # [exists |-> TRUE, mtime |-> m]
    /\ dep' = [exists |-> TRUE, mtime |-> m]
    /\ UNCHANGED <<fs, now>>
    /\ EnvStep

DeleteDep ==
    /\ dep.exists
    /\ dep' = [dep EXCEPT !.exists = FALSE]
    /\ UNCHANGED <<fs, now>>
    /\ EnvStep

\* A build of the tool with another CACHE_VERSION saves its index in the
\* workspace.
ForeignIndex ==
    /\ index_file # Some(ForeignIndexFile)
    /\ index_file' = Some(ForeignIndexFile)
    /\ budget.env > 0
    /\ budget' = [budget EXCEPT !.env = @ - 1]
    /\ last' = [op |-> "env", kind |-> "Ok"]
    /\ script' = ScriptOff
    /\ UNCHANGED <<env, fs_options, memory_cache, cache_files, index,
                   invalidated, cleared, threads>>

\* d seconds pass.
Tick(d) ==
    /\ now + d <= MaxTime
    /\ now' = now + d
    /\ UNCHANGED <<fs, dep>>
    /\ EnvStep

Next ==
    \/ \E p \in Paths : Get(p)
    \/ \E p \in Paths, h \in Payloads, m \in Payloads, md \in Metadatas,
          f \in PutFaults : Put(p, h, m, md, f)
    \/ \E p \in Paths : Invalidate(p)
    \/ Clear
    \/ SaveIndex
    \/ Restart
    \/ \E c \in EditedPaths, content \in Contents : EditFile(c, content)
    \/ \E c \in EditedPaths : DeleteFile(c)
    \/ \E m \in 0..MaxTime : TouchDep(m)
    \/ DeleteDep
    \/ \E d \in 1..MaxTime : Tick(d)
    \/ ForeignIndex

Spec == Init /\ [][Next]_vars

\* The cache used for one path over restarts: in one run the index is saved
\* and the environment changes, compression is on or off, and the clock
\* may be set back.
ReloadOptionSets ==
    { [o EXCEPT !.compress_data = cd] : o \in OptionSets, cd \in BOOLEAN }

InitReload ==
    /\ fs = [c \in CanonPaths |-> Some(1)]
    /\ dep = [exists |-> TRUE, mtime |-> 0]
    /\ now \in 0..1
    /\ fs_options \in ReloadOptionSets
    /\ memory_cache = EmptyMap
    /\ cache_files = EmptyMap
    /\ index_file = None
    /\ index = EmptyIndex
    /\ last = [op |-> "new", kind |-> "Ok"]
    /\ script = ScriptOff
    /\ invalidated = {}
    /\ cleared = FALSE
    /\ budget = [env |-> MaxEnv, saves |-> MaxSaves]
    /\ threads = NoThreads

\* The system clock is set back to m.
ClockBack(m) ==
    /\ m < now
    /\ now' = m
    /\ UNCHANGED <<fs, dep>>
    /\ EnvStep

NextReload ==
    \/ Get(ConcPath)
    \/ \E h \in ConcPayloads, md \in Metadatas : Put(ConcPath, h, <<>>, md, "none")
    \/ Invalidate(ConcPath)
    \/ Clear
    \/ SaveIndex
    \/ Restart
    \/ \E content \in Contents : EditFile("/ws/a.rs", content)
    \/ DeleteFile("/ws/a.rs")
    \/ \E m \in 0..MaxTime : TouchDep(m)
    \/ DeleteDep
    \/ \E d \in 1..MaxTime : Tick(d)
    \/ \E m \in 0..MaxTime : ClockBack(m)

SpecReload == InitReload /\ [][NextReload]_vars

\* A new cache changed by put, invalidate and clear only.
NextMutate ==
    \/ \E p \in Paths, h \in Payloads, m \in Payloads, md \in Metadatas,
          f \in PutFaults : Put(p, h, m, md, f)
    \/ \E p \in Paths : Invalidate(p)
    \/ Clear

SpecMutate == Init /\ [][NextMutate]_vars

TypeOK ==
    /\ now \in 0..MaxTime
    /\ DOMAIN memory_cache \subseteq Keys
    /\ DOMAIN cache_files \subseteq Keys
    /\ index.stats.misses <= MaxPuts

\* ====================================================== concurrent calls
\* Two threads call get and put for one path on one instance; each step is
\* one system call or one access to the shared maps.  The instance is new,
\* in a workspace where an earlier run has put an entry for the path.
InitConc ==
    /\ fs = [c \in CanonPaths |-> Some(1)]
    /\ dep = [exists |-> TRUE, mtime |-> 0]
    /\ now = 0
    /\ fs_options \in OptionSets
    /\ memory_cache = EmptyMap
    /\ cache_files =
         [k \in {get_cache_key(ConcPath)} |->
            serialize(NewEntry(fs[CanonOf(ConcPath)][1], <<7>>, <<>>,
                               ConcMetadata))]
    /\ index_file = None
    /\ index = EmptyIndex
    /\ last = [op |-> "new", kind |-> "Ok"]
    /\ script = ScriptOff
    /\ invalidated = {}
    /\ cleared = FALSE
    /\ budget = [env |-> 0, saves |-> 0]
    /\ threads = [t \in Threads |-> IdleThread(0, "")]

ConcFrame == UNCHANGED <<env, fs_options, index_file, last, script, invalidated,
                         cleared, budget>>

\* The call of thread t returns ret.
Return(t, ret) == IdleThread(threads[t].ops, ret)

\* get: key and hot-tier lookup (cache.rs 169-172).
GetLookup(t) ==
    /\ threads[t].pc = "idle"
    /\ threads[t].ops < MaxOps
    /\ LET key == get_cache_key(ConcPath)
           th == [threads[t] EXCEPT !.ops = @ + 1, !.ret = ""]
       IN threads' = [threads EXCEPT ![t] =
            IF key \in DOMAIN memory_cache
            THEN IdleThread(th.ops, "Some")
            ELSE [th EXCEPT !.pc = "get_exists"]]
    /\ UNCHANGED <<memory_cache, cache_files, index>>
    /\ ConcFrame

\* get: cache_file.exists() (cache.rs 175-178).
GetExists(t) ==
    /\ threads[t].pc = "get_exists"
    /\ threads' = [threads EXCEPT ![t] =
          IF get_cache_key(ConcPath) \notin DOMAIN cache_files
          THEN Return(t, "None")
          ELSE [@ EXCEPT !.pc = "get_read"]]
    /\ UNCHANGED <<memory_cache, cache_files, index>>
    /\ ConcFrame

\* get: std::fs::read(&cache_file) (cache.rs 180).
GetRead(t) ==
    /\ threads[t].pc = "get_read"
    /\ threads' = [threads EXCEPT ![t] =
          IF get_cache_key(ConcPath) \notin DOMAIN cache_files
          THEN Return(t, "Err")
          ELSE [@ EXCEPT !.pc = "get_decode",
                         !.buf = Some(cache_files[get_cache_key(ConcPath)])]]
    /\ UNCHANGED <<memory_cache, cache_files, index>>
    /\ ConcFrame

\* get: bincode::deserialize(&data)? (cache.rs 181).
GetDecode(t) ==
    /\ threads[t].pc = "get_decode"
    /\ threads' = [threads EXCEPT ![t] =
          IF ~threads[t].buf[1].ok
          THEN Return(t, "Err")
          ELSE [@ EXCEPT !.pc = "get_valid", !.buf = None,
                         !.entry = threads[t].buf[1].data]]
    /\ UNCHANGED <<memory_cache, cache_files, index>>
    /\ ConcFrame

\* get: is_entry_valid and the removal of an invalid file (cache.rs 184-188).
GetValidate(t) ==
    /\ threads[t].pc = "get_valid"
    /\ IF is_entry_valid(ConcPath, threads[t].entry[1])
       THEN /\ threads' = [threads EXCEPT ![t].pc = "get_promote"]
            /\ UNCHANGED cache_files
       ELSE /\ threads' = [threads EXCEPT ![t] = Return(t, "None")]
            /\ cache_files' = Remove(cache_files, get_cache_key(ConcPath))
    /\ UNCHANGED <<memory_cache, index>>
    /\ ConcFrame

\* get: promotion to the hot tier (cache.rs 190-193).
GetPromote(t) ==
    /\ threads[t].pc = "get_promote"
    /\ memory_cache' =
         IF Cardinality(DOMAIN memory_cache) < fs_options.max_memory_entries
         THEN Insert(memory_cache, get_cache_key(ConcPath), threads[t].entry[1])
         ELSE memory_cache
    /\ threads' = [threads EXCEPT ![t].pc = "get_stats"]
    /\ UNCHANGED <<cache_files, index>>
    /\ ConcFrame

\* get: stats.hits += 1 under the index write lock, and return
\* (cache.rs 195-201).
GetStats(t) ==
    /\ threads[t].pc = "get_stats"
    /\ index' = [index EXCEPT !.stats.hits = @ + 1]
    /\ threads' = [threads EXCEPT ![t] = Return(t, "Some")]
    /\ UNCHANGED <<memory_cache, cache_files>>
    /\ ConcFrame

\* put: read the source file, build and serialize the entry
\* (cache.rs 207-232).
PutPrepare(t, hir_data) ==
    /\ threads[t].pc = "idle"
    /\ threads[t].ops < MaxOps
    /\ threads' = [threads EXCEPT ![t] =
          [pc |-> "put_create", ops |-> @.ops + 1,
           entry |-> Some(NewEntry(fs[CanonOf(ConcPath)][1], hir_data, <<>>,
                                   ConcMetadata)),
           buf |-> None, ret |-> ""]]
    /\ UNCHANGED <<memory_cache, cache_files, index>>
    /\ ConcFrame

\* put: std::fs::write opens the cache file and truncates it (cache.rs 233).
PutCreate(t) ==
    /\ threads[t].pc = "put_create"
    /\ cache_files' = Insert(cache_files, get_cache_key(ConcPath), CorruptFile)
    /\ threads' = [threads EXCEPT ![t].pc = "put_write"]
    /\ UNCHANGED <<memory_cache, index>>
    /\ ConcFrame

\* put: std::fs::write writes the serialized entry (cache.rs 233).
PutWrite(t) ==
    /\ threads[t].pc = "put_write"
    /\ cache_files' = Insert(cache_files, get_cache_key(ConcPath),
                             serialize(threads[t].entry[1]))
    /\ threads' = [threads EXCEPT ![t].pc = "put_index"]
    /\ UNCHANGED <<memory_cache, index>>
    /\ ConcFrame

\* put: the index update under the write lock (cache.rs 236-243).
PutUpdateIndex(t) ==
    /\ threads[t].pc = "put_index"
    /\ index' = PutIndex(ConcPath, get_cache_key(ConcPath), ConcMetadata,
                         serialize(threads[t].entry[1]))
    /\ threads' = [threads EXCEPT ![t].pc = "put_memory"]
    /\ UNCHANGED <<memory_cache, cache_files>>
    /\ ConcFrame

\* put: the hot-tier insert, cleanup_old_entries and return
\* (cache.rs 245-251).
PutMemory(t) ==
    /\ threads[t].pc = "put_memory"
    /\ memory_cache' = Insert(memory_cache, get_cache_key(ConcPath),
                              threads[t].entry[1])
    /\ threads' = [threads EXCEPT ![t] = Return(t, "Ok")]
    /\ UNCHANGED <<cache_files, index>>
    /\ ConcFrame

\* With no call running, the instance is dropped and a new one is built
\* (no index file).
NewInstance ==
    /\ \A t \in Threads : threads[t].pc = "idle"
    /\ memory_cache # EmptyMap
    /\ memory_cache' = EmptyMap
    /\ index' = EmptyIndex
    /\ UNCHANGED <<cache_files, threads>>
    /\ ConcFrame

NextConc ==
    \/ \E t \in Threads : GetLookup(t)
    \/ \E t \in Threads : GetExists(t)
    \/ \E t \in Threads : GetRead(t)
    \/ \E t \in Threads : GetDecode(t)
    \/ \E t \in Threads : GetValidate(t)
    \/ \E t \in Threads : GetPromote(t)
    \/ \E t \in Threads : GetStats(t)
    \/ \E t \in Threads, h \in ConcPayloads : PutPrepare(t, h)
    \/ \E t \in Threads : PutCreate(t)
    \/ \E t \in Threads : PutWrite(t)
    \/ \E t \in Threads : PutUpdateIndex(t)
    \/ \E t \in Threads : PutMemory(t)
    \/ NewInstance

SpecConc == InitConc /\ [][NextConc]_vars

\* ========================================================= the index lock
\* Two threads calling get, put, invalidate, clear, stats and save_index for
\* one path on one instance.  A thread's lock says that it holds the write
\* lock of self.index, its read that it holds the read lock, its compressor
\* that it holds the write lock of self.compressor; its io says that the
\* step it took last read, wrote, deleted or listed files.  While a thread
\* holds the write lock its buf keeps the statistics it found.
LockThread(pc, ops, entry, buf, ret, lock, io) ==
    [pc |-> pc, ops |-> ops, entry |-> entry, buf |-> buf, ret |-> ret,
     lock |-> lock, io |-> io, read |-> FALSE, compressor |-> FALSE]

InitLock ==
    /\ fs = [c \in CanonPaths |-> Some(1)]
    /\ dep = [exists |-> TRUE, mtime |-> 0]
    /\ now = 0
    /\ fs_options \in ReloadOptionSets
    /\ memory_cache = EmptyMap
    /\ cache_files = EmptyMap
    /\ index_file = None
    /\ index = EmptyIndex
    /\ last = [op |-> "new", kind |-> "Ok"]
    /\ script = ScriptOff
    /\ invalidated = {}
    /\ cleared = FALSE
    /\ budget = [env |-> 0, saves |-> 0]
    /\ threads = [t \in Threads |->
                    LockThread("idle", 0, None, None, "", FALSE, FALSE)]

LockFrame == UNCHANGED <<env, fs_options, index_file, script, invalidated,
                         cleared, budget>>

\* self.index.write() can be taken: no thread holds the lock, to write or
\* to read.
IndexLockFree == \A t \in Threads : ~threads[t].lock /\ ~threads[t].read

\* self.index.read() can be taken: no thread holds the write lock.
IndexReadable == \A t \in Threads : ~threads[t].lock

\* self.compressor.write() can be taken.
CompressorFree == \A t \in Threads : ~threads[t].compressor

\* Thread t, at pc, takes a step to pc next that does file input or output
\* (io) or none.
Step(t, next, io) == [threads[t] EXCEPT !.pc = next, !.io = io]

\* The call of thread t returns ret.
Returns(t, op, ret) ==
    /\ threads' = [threads EXCEPT ![t] =
          LockThread("idle", @.ops, None, None, ret, FALSE, FALSE)]
    /\ last' = [op |-> op, kind |-> ret]

\* Thread t, outside any call, calls an operation that begins at pc.
Calls(t, pc) ==
    /\ threads[t].pc = "idle"
    /\ threads[t].ops < MaxOps
    /\ threads' = [threads EXCEPT ![t] =
          LockThread(pc, @.ops + 1, None, None, "", FALSE, FALSE)]

\* get: key and hot-tier lookup (cache.rs 169-172).
GetKeyLookup(t) ==
    /\ threads[t].pc = "idle"
    /\ threads[t].ops < MaxOps
    /\ IF get_cache_key(ConcPath) \in DOMAIN memory_cache
       THEN /\ threads' = [threads EXCEPT ![t] =
                  LockThread("idle", @.ops + 1, None, None, "Some", FALSE, FALSE)]
            /\ last' = [op |-> "get", kind |-> "Some"]
       ELSE /\ Calls(t, "get_exists")
            /\ UNCHANGED last
    /\ UNCHANGED <<memory_cache, cache_files, index>>
    /\ LockFrame

\* get: cache_file.exists() (cache.rs 175-178).
GetFileExists(t) ==
    /\ threads[t].pc = "get_exists"
    /\ IF get_cache_key(ConcPath) \in DOMAIN cache_files
       THEN /\ threads' = [threads EXCEPT ![t] = Step(t, "get_read", TRUE)]
            /\ UNCHANGED last
       ELSE Returns(t, "get", "None")
    /\ UNCHANGED <<memory_cache, cache_files, index>>
    /\ LockFrame

\* get: std::fs::read and bincode::deserialize (cache.rs 180-181); the file
\* may be gone by now.
GetFileRead(t) ==
    /\ threads[t].pc = "get_read"
    /\ IF get_cache_key(ConcPath) \in DOMAIN cache_files
          /\ cache_files[get_cache_key(ConcPath)].ok
       THEN /\ threads' = [threads EXCEPT ![t] =
                  [Step(t, "get_valid", TRUE) EXCEPT
                     !.entry = cache_files[get_cache_key(ConcPath)].data]]
            /\ UNCHANGED last
       ELSE Returns(t, "get", "Err")
    /\ UNCHANGED <<memory_cache, cache_files, index>>
    /\ LockFrame

\* get: is_entry_valid and the removal of an invalid file (cache.rs 184-188).
GetCheckValid(t) ==
    /\ threads[t].pc = "get_valid"
    /\ IF is_entry_valid(ConcPath, threads[t].entry[1])
       THEN /\ threads' = [threads EXCEPT ![t] = Step(t, "get_promote", TRUE)]
            /\ UNCHANGED <<cache_files, last>>
       ELSE /\ cache_files' = Remove(cache_files, get_cache_key(ConcPath))
            /\ Returns(t, "get",
                       IF get_cache_key(ConcPath) \in DOMAIN cache_files
                       THEN "None" ELSE "Err")
    /\ UNCHANGED <<memory_cache, index>>
    /\ LockFrame

\* get: promotion to the hot tier (cache.rs 190-193).
GetMemoryInsert(t) ==
    /\ threads[t].pc = "get_promote"
    /\ memory_cache' =
         IF Cardinality(DOMAIN memory_cache) < fs_options.max_memory_entries
         THEN Insert(memory_cache, get_cache_key(ConcPath), threads[t].entry[1])
         ELSE memory_cache
    /\ threads' = [threads EXCEPT ![t] = Step(t, "get_lock", FALSE)]
    /\ UNCHANGED <<cache_files, index, last>>
    /\ LockFrame

\* get: index.stats.hits += 1 (cache.rs 198).
GetHitsUpdate(t) ==
    /\ threads[t].pc = "get_index"
    /\ threads[t].lock
    /\ index' = [index EXCEPT !.stats.hits = @ + 1]
    /\ threads' = [threads EXCEPT ![t] = Step(t, "get_unlock", FALSE)]
    /\ UNCHANGED <<memory_cache, cache_files, last>>
    /\ LockFrame

\* put: std::fs::read of the source file and the entry with its payloads as
\* they will be stored (cache.rs 207-225).
PutReadSource(t, hir_data) ==
    /\ threads[t].pc = "idle"
    /\ threads[t].ops < MaxOps
    /\ threads' = [threads EXCEPT ![t] =
          LockThread(IF fs_options.compress_data THEN "put_compress_hir"
                     ELSE "put_write",
                     @.ops + 1,
                     Some(NewEntry(fs[CanonOf(ConcPath)][1], hir_data, <<>>,
                                   ConcMetadata)),
                     None, "", FALSE, TRUE)]
    /\ UNCHANGED <<memory_cache, cache_files, index, last>>
    /\ LockFrame

\* put: self.compressor.write() for one payload (cache.rs 215, 220).
CompressorAcquire(t) ==
    /\ threads[t].pc \in {"put_compress_hir", "put_compress_mir"}
    /\ CompressorFree
    /\ threads' = [threads EXCEPT ![t] =
          [@ EXCEPT !.compressor = TRUE, !.io = FALSE,
                    !.pc = IF @ = "put_compress_hir" THEN "put_compressing_hir"
                           ELSE "put_compressing_mir"]]
    /\ UNCHANGED <<memory_cache, cache_files, index, last>>
    /\ LockFrame

\* put: compress(..)? has run and the guard is dropped at the end of the
\* expression (cache.rs 215, 220).
CompressorRelease(t) ==
    /\ threads[t].pc \in {"put_compressing_hir", "put_compressing_mir"}
    /\ threads[t].compressor
    /\ threads' = [threads EXCEPT ![t] =
          [@ EXCEPT !.compressor = FALSE, !.io = FALSE,
                    !.pc = IF @ = "put_compressing_hir" THEN "put_compress_mir"
                           ELSE "put_write"]]
    /\ UNCHANGED <<memory_cache, cache_files, index, last>>
    /\ LockFrame

\* PutWriteFile taking the index write lock before it writes the file.
PutWriteFileLocked(t) ==
    /\ threads[t].pc = "put_write"
    /\ IndexLockFree
    /\ cache_files' = Insert(cache_files, get_cache_key(ConcPath),
                             serialize(threads[t].entry[1]))
    /\ threads' = [threads EXCEPT ![t].pc = "put_index", ![t].io = TRUE,
                                  ![t].lock = TRUE]
    /\ UNCHANGED <<memory_cache, index, last>>
    /\ LockFrame

\* put: the key and std::fs::write of the serialized entry
\* (cache.rs 228-233).
PutWriteFile(t) ==
    /\ threads[t].pc = "put_write"
    /\ cache_files' = Insert(cache_files, get_cache_key(ConcPath),
                             serialize(threads[t].entry[1]))
    /\ threads' = [threads EXCEPT ![t] = Step(t, "put_lock", TRUE)]
    /\ UNCHANGED <<memory_cache, index, last>>
    /\ LockFrame

\* let mut index = self.index.write() (cache.rs 197, 237, 269, 298).
AcquireIndex(t) ==
    /\ threads[t].pc \in {"get_lock", "put_lock", "invalidate_lock", "clear_lock"}
    /\ IndexLockFree
    /\ threads' = [threads EXCEPT ![t] =
          [@ EXCEPT !.lock = TRUE, !.io = FALSE, !.buf = Some(index.stats),
                    !.pc = IF @ = "get_lock" THEN "get_index"
                           ELSE IF @ = "put_lock" THEN "put_index"
                           ELSE IF @ = "invalidate_lock" THEN "invalidate_index"
                           ELSE "clear_index"]]
    /\ UNCHANGED <<memory_cache, cache_files, index, last>>
    /\ LockFrame

\* put: the two maps and stats.misses (cache.rs 238-240).
PutIndexUpdate(t) ==
    /\ threads[t].pc = "put_index"
    /\ threads[t].lock
    /\ index' = [index EXCEPT
         !.file_to_key = Insert(@, ConcPath, get_cache_key(ConcPath)),
         !.entries = Insert(@, get_cache_key(ConcPath), ConcMetadata),
         !.stats.misses = @ + 1]
    /\ threads' = [threads EXCEPT ![t] = Step(t, "put_index_stats", FALSE)]
    /\ UNCHANGED <<memory_cache, cache_files, last>>
    /\ LockFrame

\* put: stats.size_bytes and stats.entry_count (cache.rs 241-242).
PutIndexStats(t) ==
    /\ threads[t].pc = "put_index_stats"
    /\ threads[t].lock
    /\ index' = [index EXCEPT
         !.stats.size_bytes = @ + serialize(threads[t].entry[1]).len,
         !.stats.entry_count = @ + 1]
    /\ threads' = [threads EXCEPT ![t] = Step(t, "put_unlock", FALSE)]
    /\ UNCHANGED <<memory_cache, cache_files, last>>
    /\ LockFrame

\* ReleaseIndex with put keeping the guard until it returns.
ReleaseIndexAtReturn(t) ==
    /\ threads[t].pc \in {"get_unlock", "put_unlock", "invalidate_unlock",
                          "clear_unlock"}
    /\ threads[t].lock
    /\ IF threads[t].pc = "put_unlock"
       THEN /\ threads' = [threads EXCEPT ![t] =
                  [@ EXCEPT !.io = FALSE, !.buf = None, !.pc = "put_memory"]]
            /\ UNCHANGED last
       ELSE IF threads[t].pc = "get_unlock" THEN Returns(t, "get", "Some")
       ELSE Returns(t, IF threads[t].pc = "invalidate_unlock"
                       THEN "invalidate" ELSE "clear", "Ok")
    /\ UNCHANGED <<memory_cache, cache_files, index>>
    /\ LockFrame

\* The block of the index update ends and the guard is dropped
\* (cache.rs 199, 243, 276, 302).
ReleaseIndex(t) ==
    /\ threads[t].pc \in {"get_unlock", "put_unlock", "invalidate_unlock",
                          "clear_unlock"}
    /\ threads[t].lock
    /\ IF threads[t].pc = "put_unlock"
       THEN /\ threads' = [threads EXCEPT ![t] =
                  [@ EXCEPT !.lock = FALSE, !.io = FALSE, !.buf = None,
                            !.pc = "put_memory"]]
            /\ UNCHANGED last
       ELSE IF threads[t].pc = "get_unlock" THEN Returns(t, "get", "Some")
       ELSE Returns(t, IF threads[t].pc = "invalidate_unlock"
                       THEN "invalidate" ELSE "clear", "Ok")
    /\ UNCHANGED <<memory_cache, cache_files, index>>
    /\ LockFrame

\* put: the hot-tier insert (cache.rs 245-246).
PutMemoryInsert(t) ==
    /\ threads[t].pc = "put_memory"
    /\ memory_cache' = Insert(memory_cache, get_cache_key(ConcPath),
                              threads[t].entry[1])
    /\ threads' = [threads EXCEPT ![t] = Step(t, "put_cleanup", FALSE)]
    /\ UNCHANGED <<cache_files, index, last>>
    /\ LockFrame

\* put: cleanup_old_entries reads the statistics through stats() when there
\* is a size limit, and put returns (cache.rs 249-251, 385-396).
PutCleanup(t) ==
    /\ threads[t].pc = "put_cleanup"
    /\ fs_options.max_size_bytes > 0 => IndexReadable
    /\ Returns(t, "put", "Ok")
    /\ UNCHANGED <<memory_cache, cache_files, index>>
    /\ LockFrame

\* invalidate: the key and memory_cache.remove (cache.rs 256-259).
InvalidateMemory(t) ==
    /\ threads[t].pc = "idle"
    /\ threads[t].ops < MaxOps
    /\ memory_cache' = Remove(memory_cache, get_cache_key(ConcPath))
    /\ threads' = [threads EXCEPT ![t] =
          LockThread("invalidate_exists", @.ops + 1, None, None, "",
                     FALSE, FALSE)]
    /\ UNCHANGED <<cache_files, index, last>>
    /\ LockFrame

\* invalidate: cache_file.exists() (cache.rs 262-263).
InvalidateExists(t) ==
    /\ threads[t].pc = "invalidate_exists"
    /\ threads' = [threads EXCEPT ![t] =
          Step(t, IF get_cache_key(ConcPath) \in DOMAIN cache_files
                  THEN "invalidate_remove" ELSE "invalidate_lock", TRUE)]
    /\ UNCHANGED <<memory_cache, cache_files, index, last>>
    /\ LockFrame

\* invalidate: std::fs::remove_file(cache_file)? (cache.rs 264); the file
\* may be gone by now.
InvalidateRemoveFile(t) ==
    /\ threads[t].pc = "invalidate_remove"
    /\ IF get_cache_key(ConcPath) \in DOMAIN cache_files
       THEN /\ cache_files' = Remove(cache_files, get_cache_key(ConcPath))
            /\ threads' = [threads EXCEPT ![t] = Step(t, "invalidate_lock", TRUE)]
            /\ UNCHANGED last
       ELSE /\ Returns(t, "invalidate", "Err")
            /\ UNCHANGED cache_files
    /\ UNCHANGED <<memory_cache, index>>
    /\ LockFrame

\* invalidate: the index update (cache.rs 270-275).
InvalidateIndexUpdate(t) ==
    /\ threads[t].pc = "invalidate_index"
    /\ threads[t].lock
    /\ index' = InvalidateIndex(ConcPath, get_cache_key(ConcPath))
    /\ threads' = [threads EXCEPT ![t] = Step(t, "invalidate_unlock", FALSE)]
    /\ UNCHANGED <<memory_cache, cache_files, last>>
    /\ LockFrame

\* clear: memory_cache.clear() (cache.rs 284).
ClearMemory(t) ==
    /\ threads[t].pc = "idle"
    /\ threads[t].ops < MaxOps
    /\ memory_cache' = EmptyMap
    /\ threads' = [threads EXCEPT ![t] =
          LockThread("clear_list", @.ops + 1, None, None, "", FALSE, FALSE)]
    /\ UNCHANGED <<cache_files, index, last>>
    /\ LockFrame

\* clear: std::fs::read_dir lists the cache files and index.bin
\* (cache.rs 287-290).
ClearList(t) ==
    /\ threads[t].pc = "clear_list"
    /\ threads' = [threads EXCEPT ![t] =
          [Step(t, "clear_remove", TRUE) EXCEPT
             !.buf = Some([caches |-> DOMAIN cache_files,
                           index_bin |-> index_file # None])]]
    /\ UNCHANGED <<memory_cache, cache_files, index, last>>
    /\ LockFrame

\* clear: std::fs::remove_file of the files listed (cache.rs 291-293); a
\* file gone since the listing is an error.
ClearRemoveFiles(t) ==
    /\ threads[t].pc = "clear_remove"
    /\ cache_files' = [k \in DOMAIN cache_files \ threads[t].buf[1].caches
                         |-> cache_files[k]]
    /\ index_file' = IF threads[t].buf[1].index_bin THEN None ELSE index_file
    /\ IF /\ threads[t].buf[1].caches \subseteq DOMAIN cache_files
          /\ threads[t].buf[1].index_bin => index_file # None
       THEN /\ threads' = [threads EXCEPT ![t] =
                  [Step(t, "clear_lock", TRUE) EXCEPT !.buf = None]]
            /\ UNCHANGED last
       ELSE Returns(t, "clear", "Err")
    /\ UNCHANGED <<memory_cache, index>>
    /\ UNCHANGED <<env, fs_options, script, invalidated, cleared, budget>>

\* clear: the index reset (cache.rs 299-301).
ClearIndexReset(t) ==
    /\ threads[t].pc = "clear_index"
    /\ threads[t].lock
    /\ index' = ClearedIndex
    /\ threads' = [threads EXCEPT ![t] = Step(t, "clear_unlock", FALSE)]
    /\ UNCHANGED <<memory_cache, cache_files, last>>
    /\ LockFrame

\* stats() is called (cache.rs 308).
StatsCall(t) ==
    /\ Calls(t, "stats_read")
    /\ UNCHANGED <<memory_cache, cache_files, index, last>>
    /\ LockFrame

\* StatsRead cloning the statistics without the read lock.
StatsReadUnlocked(t) ==
    /\ threads[t].pc = "stats_read"
    /\ threads' = [threads EXCEPT ![t] =
          LockThread("idle", @.ops, None, Some(index.stats), "Ok", FALSE, FALSE)]
    /\ last' = [op |-> "stats", kind |-> "Ok"]
    /\ UNCHANGED <<memory_cache, cache_files, index>>
    /\ LockFrame

\* stats: self.index.read().stats.clone() (cache.rs 309); the thread's buf
\* keeps the value returned.
StatsRead(t) ==
    /\ threads[t].pc = "stats_read"
    /\ IndexReadable
    /\ threads' = [threads EXCEPT ![t] =
          LockThread("idle", @.ops, None, Some(index.stats), "Ok", FALSE, FALSE)]
    /\ last' = [op |-> "stats", kind |-> "Ok"]
    /\ UNCHANGED <<memory_cache, cache_files, index>>
    /\ LockFrame

\* save_index() is called (cache.rs 313).
SaveCall(t) ==
    /\ Calls(t, "save_lock")
    /\ UNCHANGED <<memory_cache, cache_files, index, last>>
    /\ LockFrame

\* save_index: let index = self.index.read() (cache.rs 314).
SaveAcquireRead(t) ==
    /\ threads[t].pc = "save_lock"
    /\ IndexReadable
    /\ threads' = [threads EXCEPT ![t] =
          [Step(t, "save_write", FALSE) EXCEPT !.read = TRUE]]
    /\ UNCHANGED <<memory_cache, cache_files, index, last>>
    /\ LockFrame

\* save_index: serialize and std::fs::write of index.bin (cache.rs 315-316).
SaveWriteFile(t) ==
    /\ threads[t].pc = "save_write"
    /\ threads[t].read
    /\ index_file' = Some(index)
    /\ threads' = [threads EXCEPT ![t] = Step(t, "save_unlock", TRUE)]
    /\ UNCHANGED <<memory_cache, cache_files, index, last>>
    /\ UNCHANGED <<env, fs_options, script, invalidated, cleared, budget>>

\* save_index: the guard is dropped at the return (cache.rs 317-318).
SaveRelease(t) ==
    /\ threads[t].pc = "save_unlock"
    /\ threads[t].read
    /\ Returns(t, "save_index", "Ok")
    /\ UNCHANGED <<memory_cache, cache_files, index>>
    /\ LockFrame

\* The steps of thread t inside a call.
Continue(t) ==
    \/ GetFileExists(t)
    \/ GetFileRead(t)
    \/ GetCheckValid(t)
    \/ GetMemoryInsert(t)
    \/ GetHitsUpdate(t)
    \/ CompressorAcquire(t)
    \/ CompressorRelease(t)
    \/ PutWriteFile(t)
    \/ AcquireIndex(t)
    \/ PutIndexUpdate(t)
    \/ PutIndexStats(t)
    \/ ReleaseIndex(t)
    \/ PutMemoryInsert(t)
    \/ PutCleanup(t)
    \/ InvalidateExists(t)
    \/ InvalidateRemoveFile(t)
    \/ InvalidateIndexUpdate(t)
    \/ ClearList(t)
    \/ ClearRemoveFiles(t)
    \/ ClearIndexReset(t)
    \/ StatsRead(t)
    \/ SaveAcquireRead(t)
    \/ SaveWriteFile(t)
    \/ SaveRelease(t)

\* A thread outside any call calls an operation.
Call(t) ==
    \/ GetKeyLookup(t)
    \/ \E h \in ConcPayloads : PutReadSource(t, h)
    \/ InvalidateMemory(t)
    \/ ClearMemory(t)
    \/ StatsCall(t)
    \/ SaveCall(t)

NextLock == \E t \in Threads : Call(t) \/ Continue(t)

SpecLock == InitLock /\ [][NextLock]_vars

\* The scheduler lets every thread that can take a step inside a call take
\* one eventually.
SpecLockFair == SpecLock /\ \A t \in Threads : WF_vars(Continue(t))

\* ======================================================== name resolution
\* NameResolver::resolve_project over a resolver built with a cache
\* (lib.rs resolve_project_names), one call at a time.

\* Catalogs that resolve_project_impl may compute (items named by strings).
Catalogs == {<<"HashMap">>, <<"HashMap", "Widget">>}

\* bincode::serialize(&result): the bytes of a NameResolutionResult.
bincode_result(result) == <<"bincode">> \o result
\* bincode::deserialize::<NameResolutionResult>(bytes): the result, or None
\* for bytes that are not a serialized result (a zstd frame is not).
deserialize_result(bytes) ==
    IF bytes # <<>> /\ Head(bytes) = "bincode" THEN Some(Tail(bytes)) ELSE None

\* The metadata resolve_project stores with the serialized result.
ResolutionMetadata(serialized) ==
    [rustc_version |-> "1.70.0", dependencies |-> <<>>,
     file_mtime |-> current_timestamp, analysis_duration_ms |-> 1000,
     file_size |-> Len(serialized)]

\* The options of the backing cache: compression on (the default) or off.
ResolverOptionSets ==
    { [o EXCEPT !.compress_data = cd] : o \in OptionSets, cd \in BOOLEAN }

\* The resolver outside a call: how the last call ended (ret), why it
\* failed, what it returned, whether it ran resolve_project_impl, and
\* whether a tier held the resolution key when it began (had).
ResolverIdle(ret, why, val, computed, had) ==
    [pc |-> "idle", ret |-> ret, why |-> why, val |-> val,
     computed |-> computed, had |-> had]

InitResolve ==
    /\ fs \in [{ResolutionCanon} -> {None, Some(1)}]
    /\ dep = [exists |-> TRUE, mtime |-> 0]
    /\ now = 0
    /\ fs_options \in ResolverOptionSets
    /\ memory_cache = EmptyMap
    /\ cache_files = EmptyMap
    /\ index_file = None
    /\ index = EmptyIndex
    /\ last = [op |-> "new", kind |-> "Ok"]
    /\ script = ScriptOff
    /\ invalidated = {}
    /\ cleared = FALSE
    /\ budget = [env |-> MaxEnv, saves |-> 0]
    /\ threads = [t \in {1} |-> ResolverIdle("", "", None, FALSE, FALSE)]

ResolverIsIdle == threads[1].pc = "idle"

\* resolve_project up to the cache lookup (name_resolution.rs 144-155):
\* a cache error is returned, a cached result that deserializes is
\* returned, anything else goes on to resolve_project_impl.
ResolveLookup ==
    LET r == get(ResolutionPath)
        key == get_cache_key(ResolutionPath)
        had == KeyOk(ResolutionPath)
                 /\ (key \in DOMAIN memory_cache \/ key \in DOMAIN cache_files)
        cached == IF r.kind = "Some"
                  THEN deserialize_result(r.val[1].hir_data) ELSE None
    IN /\ ResolverIsIdle
       /\ index.stats.misses < MaxPuts
       /\ r.st.index.stats.hits <= MaxHits
       /\ Apply(r.st)
       /\ threads' = [threads EXCEPT ![1] =
            IF r.kind = "Err" THEN ResolverIdle("Err", "cache", None, FALSE, had)
            ELSE IF cached # None THEN ResolverIdle("Ok", "", cached, FALSE, had)
            ELSE [pc |-> "resolve_impl", ret |-> "", why |-> "", val |-> None,
                  computed |-> FALSE, had |-> had]]
       /\ last' = [op |-> "resolve_project",
                   kind |-> IF r.kind = "Err" THEN "Err"
                            ELSE IF cached # None THEN "Ok" ELSE "running"]
       /\ UNCHANGED <<env, fs_options, index_file, script, invalidated, cleared,
                      budget>>

\* resolve_project from resolve_project_impl on (name_resolution.rs
\* 158-178): impl is the catalog computed, or None when the computation
\* fails; the result of put is dropped.
ResolveImpl(impl) ==
    /\ threads[1].pc = "resolve_impl"
    /\ IF impl = None
       THEN /\ threads' = [threads EXCEPT ![1] =
                 ResolverIdle("Err", "impl", None, TRUE, threads[1].had)]
            /\ last' = [op |-> "resolve_project", kind |-> "Err"]
            /\ UNCHANGED <<memory_cache, cache_files, index>>
       ELSE LET serialized == bincode_result(impl[1])
                r == put(ResolutionPath, serialized, <<>>,
                         ResolutionMetadata(serialized), "none")
            IN /\ Apply(r.st)
               /\ threads' = [threads EXCEPT ![1] =
                    ResolverIdle("Ok", "", impl, TRUE, threads[1].had)]
               /\ last' = [op |-> "resolve_project", kind |-> "Ok"]
    /\ UNCHANGED <<env, fs_options, index_file, script, invalidated, cleared,
                   budget>>

\* resolve_project_names builds a new cache instance for its call.
ResolverRestart == ResolverIsIdle /\ Restart

\* The file at the resolution path is written, removed; time passes.
ResolverEditFile(content) == ResolverIsIdle /\ EditFile(ResolutionCanon, content)
ResolverDeleteFile == ResolverIsIdle /\ DeleteFile(ResolutionCanon)
ResolverTick(d) == ResolverIsIdle /\ Tick(d)

NextResolve ==
    \/ ResolveLookup
    \/ \E impl \in {None} \cup {Some(c) : c \in Catalogs} : ResolveImpl(impl)
    \/ ResolverRestart
    \/ \E content \in Contents : ResolverEditFile(content)
    \/ ResolverDeleteFile
    \/ \E d \in 1..MaxTime : ResolverTick(d)

SpecResolve == InitResolve /\ [][NextResolve]_vars

\* =============================================================== matching
\* NameResolver::find_matches_for_types and what it calls.  Strings are
\* sequences of characters (ASCII, so bytes and chars coincide); confidences
\* are counted in units of 1/ConfidenceScale, exact for names of up to 6
\* characters.
ConfidenceScale == 600
Tenths(n) == (n * ConfidenceScale) \div 10
Threshold == Tenths(3)

Str_Map == <<"M", "a", "p">>
Str_Ma == <<"M", "a">>
Str_qqqq == <<"q", "q", "q", "q">>

Item(module, name) ==
    [name |-> name, full_path |-> module \o <<":", ":">> \o name]

\* The items catalogs are made of, and the names searched for.
ItemSet ==
    { Item(<<"c">>, Str_Map),
      Item(<<"c">>, <<"M", "a", "p", "s">>),
      Item(<<"c">>, <<"x", "M", "a", "p">>),
      Item(<<"c">>, <<"M", "o", "p">>),
      Item(<<"m", "a", "p">>, <<"T">>),
      Item(<<"c">>, <<"Z">>),
      Item(<<"c">>, Str_Ma) }
SearchNames == {Str_Map, Str_Ma, Str_qqqq}

\* Sequences of at most n elements of S, without repetition when distinct.
Extensions(q, S, distinct) ==
    { Append(q, x) :
        x \in {y \in S : ~distinct \/ \A i \in 1..Len(q) : q[i] # y} }

RECURSIVE SeqsUpTo(_, _, _)
SeqsUpTo(S, n, distinct) ==
    IF n = 0 THEN {<<>>}
    ELSE LET shorter == SeqsUpTo(S, n - 1, distinct)
         IN shorter \cup
            UNION { Extensions(q, S, distinct) :
                      q \in {r \in shorter : Len(r) = n - 1} }

ItemLists == SeqsUpTo(ItemSet, MaxItems, TRUE)
TypeLists == SeqsUpTo(SearchNames, MaxTypes, FALSE)

\* str::to_lowercase on the characters of the model.
Lower(c) ==
    IF c = "M" THEN "m" ELSE IF c = "T" THEN "t" ELSE IF c = "Z" THEN "z" ELSE c
to_lowercase(str) == [i \in 1..Len(str) |-> Lower(str[i])]

starts_with(str, pat) ==
    Len(pat) <= Len(str) /\ SubSeq(str, 1, Len(pat)) = pat
ends_with(str, pat) ==
    Len(pat) <= Len(str) /\ SubSeq(str, Len(str) - Len(pat) + 1, Len(str)) = pat
contains(str, pat) ==
    \E i \in 1..(Len(str) - Len(pat) + 1) : SubSeq(str, i, i + Len(pat) - 1) = pat

Min2(x, y) == IF x <= y THEN x ELSE y

\* The table of edit_distance filled without the substitution case.
RECURSIVE dp_no_substitution(_, _, _, _)
dp_no_substitution(a, b, i, j) ==
    IF i = 0 THEN j
    ELSE IF j = 0 THEN i
    ELSE IF a[i] = b[j] THEN dp_no_substitution(a, b, i - 1, j - 1)
    ELSE 1 + Min2(dp_no_substitution(a, b, i - 1, j),
                  dp_no_substitution(a, b, i, j - 1))

\* The table of edit_distance: dp[i][j] over the first i chars of a and the
\* first j chars of b.
RECURSIVE dp(_, _, _, _)
dp(a, b, i, j) ==
    IF i = 0 THEN j
    ELSE IF j = 0 THEN i
    ELSE IF a[i] = b[j] THEN dp(a, b, i - 1, j - 1)
    ELSE 1 + Min2(Min2(dp(a, b, i - 1, j), dp(a, b, i, j - 1)),
                  dp(a, b, i - 1, j - 1))

edit_distance(a, b) ==
    IF Len(a) = 0 THEN Len(b)
    ELSE IF Len(b) = 0 THEN Len(a)
    ELSE dp(a, b, Len(a), Len(b))

MatchType(tag, distance) == [tag |-> tag, distance |-> distance]
Score(confidence, match_type) ==
    [confidence |-> confidence, match_type |-> match_type]

\* calculate_match_score without the distance <= 2 limit.
calculate_match_score_no_cap(search, item) ==
    IF search = item.name THEN Score(Tenths(10), MatchType("ExactName", 0))
    ELSE IF starts_with(item.name, search)
      THEN Score(Tenths(8), MatchType("EditDistance", 0))
    ELSE IF ends_with(item.name, search)
      THEN Score(Tenths(7), MatchType("EditDistance", 0))
    ELSE LET distance == edit_distance(search, item.name) IN
      IF Len(item.name) > 0
      THEN Score((Tenths(6) * (Len(item.name) - distance)) \div Len(item.name),
                 MatchType("EditDistance", distance))
      ELSE IF contains(to_lowercase(item.full_path), to_lowercase(search))
        THEN Score(Tenths(4), MatchType("TypeMatches", 0))
      ELSE Score(0, MatchType("TypeMatches", 0))

\* calculate_match_score: (confidence, match_type).
calculate_match_score(search, item) ==
    IF search = item.name THEN Score(Tenths(10), MatchType("ExactName", 0))
    ELSE IF starts_with(item.name, search)
      THEN Score(Tenths(8), MatchType("EditDistance", 0))
    ELSE IF ends_with(item.name, search)
      THEN Score(Tenths(7), MatchType("EditDistance", 0))
    ELSE LET distance == edit_distance(search, item.name) IN
      IF distance <= 2 /\ Len(item.name) > 0
      THEN Score((Tenths(6) * (Len(item.name) - distance)) \div Len(item.name),
                 MatchType("EditDistance", distance))
      ELSE IF contains(to_lowercase(item.full_path), to_lowercase(search))
        THEN Score(Tenths(4), MatchType("TypeMatches", 0))
      ELSE Score(0, MatchType("TypeMatches", 0))

\* The relevance test of find_matches_for_types, with >= for >.
RelevantInclusive(confidence) == confidence >= Threshold

\* The relevance test of find_matches_for_types: confidence > 0.3.
Relevant(confidence) == confidence > Threshold

\* The inner loop of find_matches_for_types over the items, for one type.
RECURSIVE MatchesOfType(_, _)
MatchesOfType(unresolved_type, items) ==
    IF items = <<>> THEN <<>>
    ELSE LET sc == calculate_match_score(unresolved_type, Head(items))
         IN (IF Relevant(sc.confidence)
             THEN << [item |-> Head(items), confidence |-> sc.confidence,
                      match_type |-> sc.match_type] >>
             ELSE <<>>)
            \o MatchesOfType(unresolved_type, Tail(items))

\* The outer loop over the unresolved types.
RECURSIVE AllMatches(_, _)
AllMatches(unresolved_types, items) ==
    IF unresolved_types = <<>> THEN <<>>
    ELSE MatchesOfType(Head(unresolved_types), items)
           \o AllMatches(Tail(unresolved_types), items)

\* matches.sort_by(|a, b| a.confidence.partial_cmp(&b.confidence)): a stable
\* sort by ascending confidence.
RECURSIVE InsertSorted(_, _)
InsertSorted(sorted, m) ==
    IF sorted = <<>> THEN <<m>>
    ELSE IF Head(sorted).confidence <= m.confidence
      THEN <<Head(sorted)>> \o InsertSorted(Tail(sorted), m)
    ELSE <<m>> \o sorted

RECURSIVE SortFrom(_, _)
SortFrom(sorted, rest) ==
    IF rest = <<>> THEN sorted
    ELSE SortFrom(InsertSorted(sorted, Head(rest)), Tail(rest))

\* find_matches_for_types without the sort.
sort_skipped(matches) == matches

sort_by_confidence(matches) == SortFrom(<<>>, matches)

\* Vec::truncate.
truncate(v, len) == IF Len(v) > len THEN SubSeq(v, 1, len) ELSE v

\* find_matches_for_types: resolution is None when resolve_project fails,
\* else Some(items).
find_matches_for_types(unresolved_types, resolution, max_suggestions) ==
    IF resolution = None THEN [kind |-> "Err", matches |-> <<>>]
    ELSE [kind |-> "Ok",
          matches |-> truncate(
              sort_by_confidence(AllMatches(unresolved_types, resolution[1])),
              max_suggestions)]

\* A caller about to call find_matches_for_types, or back from it.
MatchCaller(unresolved_types, resolution, max_suggestions, ret, matches) ==
    [pc |-> "idle", unresolved_types |-> unresolved_types,
     resolution |-> resolution, max_suggestions |-> max_suggestions,
     ret |-> ret, matches |-> matches]

InitMatch ==
    /\ fs = [c \in CanonPaths |-> Some(1)]
    /\ dep = [exists |-> TRUE, mtime |-> 0]
    /\ now = 0
    /\ fs_options \in OptionSets
    /\ memory_cache = EmptyMap
    /\ cache_files = EmptyMap
    /\ index_file = None
    /\ index = EmptyIndex
    /\ last = [op |-> "new", kind |-> "Ok"]
    /\ script = ScriptOff
    /\ invalidated = {}
    /\ cleared = FALSE
    /\ budget = [env |-> 0, saves |-> 0]
    /\ \E u \in TypeLists, r \in {None} \cup {Some(l) : l \in ItemLists},
          k \in 0..MaxSuggestions :
         threads = [t \in {1} |-> MatchCaller(u, r, k, "", <<>>)]

\* The caller calls find_matches_for_types (through a resolver without
\* cache, as lib.rs builds it) and gets its result.
FindMatchesForTypes ==
    LET th == threads[1]
        r == find_matches_for_types(th.unresolved_types, th.resolution,
                                    th.max_suggestions)
    IN /\ th.ret = ""
       /\ threads' = [threads EXCEPT ![1].ret = r.kind, ![1].matches = r.matches]
       /\ last' = [op |-> "find_matches_for_types", kind |-> r.kind]
       /\ UNCHANGED <<env, fs_options, memory_cache, cache_files, index_file,
                      index, script, invalidated, cleared, budget>>

\* find_best_import (lib.rs): the matches of one type name through a new
\* resolver, and of them matches.first() as JSON, or "null".
find_best_import(type_name, resolution) ==
    LET r == find_matches_for_types(<<type_name>>, resolution,
                                    DEFAULT_MAX_SUGGESTIONS)
    IN IF r.kind = "Err" THEN [kind |-> "Err", matches |-> <<>>]
       ELSE IF r.matches # <<>>
         THEN [kind |-> "Ok", matches |-> <<Head(r.matches)>>]
       ELSE [kind |-> "Ok", matches |-> <<>>]

\* The caller calls find_best_import with its one type name; matches holds
\* the match returned, and is empty for "null".
FindBestImport ==
    LET th == threads[1]
        r == find_best_import(th.unresolved_types[1], th.resolution)
    IN /\ th.ret = ""
       /\ Len(th.unresolved_types) = 1
       /\ threads' = [threads EXCEPT ![1].ret = r.kind, ![1].matches = r.matches]
       /\ last' = [op |-> "find_best_import", kind |-> r.kind]
       /\ UNCHANGED <<env, fs_options, memory_cache, cache_files, index_file,
                      index, script, invalidated, cleared, budget>>

NextMatch == FindMatchesForTypes \/ FindBestImport

SpecMatch == InitMatch /\ [][NextMatch]_vars

\* =========================================================== get_std_items
\* A resolver whose options are changed by the builder methods and whose
\* get_std_items is called.  Catalog entries are written with plain strings.
StdItem(full_path, name) ==
    [full_path |-> full_path, name |-> name, source |-> "Std"]
CoreItem(full_path, name) ==
    [full_path |-> full_path, name |-> name, source |-> "Core"]
ExternalItem(full_path, name, crate_name) ==
    [full_path |-> full_path, name |-> name, source |-> "External",
     crate_name |-> crate_name]

StdCatalog ==
    << StdItem("std::collections::HashMap", "HashMap"),
       StdItem("std::collections::HashSet", "HashSet"),
       StdItem("std::collections::BTreeMap", "BTreeMap"),
       StdItem("std::collections::BTreeSet", "BTreeSet"),
       StdItem("std::collections::VecDeque", "VecDeque"),
       StdItem("std::collections::LinkedList", "LinkedList"),
       StdItem("std::collections::BinaryHeap", "BinaryHeap"),
       StdItem("std::sync::Arc", "Arc"),
       StdItem("std::sync::Mutex", "Mutex"),
       StdItem("std::sync::RwLock", "RwLock"),
       StdItem("std::clone::Clone", "Clone"),
       StdItem("std::fmt::Display", "Display"),
       StdItem("std::fmt::Debug", "Debug"),
       StdItem("std::io::Result", "Result"),
       StdItem("std::fs::File", "File"),
       StdItem("std::path::Path", "Path"),
       StdItem("std::path::PathBuf", "PathBuf") >>

CoreCatalog ==
    << CoreItem("core::option::Option", "Option"),
       CoreItem("core::result::Result", "Result"),
       CoreItem("core::marker::Copy", "Copy"),
       CoreItem("core::marker::Send", "Send"),
       CoreItem("core::marker::Sync", "Sync") >>

get_common_external_items ==
    << ExternalItem("serde::Serialize", "Serialize", "serde"),
       ExternalItem("serde::Deserialize", "Deserialize", "serde"),
       ExternalItem("tokio::join", "join", "tokio"),
       ExternalItem("tokio::spawn", "spawn", "tokio"),
       ExternalItem("clap::Parser", "Parser", "clap"),
       ExternalItem("tracing::info", "info", "tracing"),
       ExternalItem("tracing::debug", "debug", "tracing"),
       ExternalItem("uuid::Uuid", "Uuid", "uuid"),
       ExternalItem("chrono::DateTime", "DateTime", "chrono"),
       ExternalItem("regex::Regex", "Regex", "regex") >>

\* get_std_items leaving the std and core entries out without builtins.
get_std_items_builtins_optional(include_externals, include_builtins) ==
    (IF include_builtins THEN StdCatalog \o CoreCatalog ELSE <<>>)
      \o (IF include_externals THEN get_common_external_items ELSE <<>>)

\* get_std_items: the std and the core entries, then the external ones if
\* include_externals; include_builtins is not read.
get_std_items(include_externals, include_builtins) ==
    (StdCatalog \o CoreCatalog)
      \o (IF include_externals THEN get_common_external_items ELSE <<>>)

\* The resolver: its options, the calls made, the items of the last call
\* and of the one before with the include_externals each was made under.
StdResolver(externals, builtins, max, calls, items, previous) ==
    [pc |-> "idle", include_externals |-> externals,
     include_builtins |-> builtins, max_suggestions |-> max, calls |-> calls,
     items |-> items, previous |-> previous]

\* NameResolver::new().
InitStd ==
    /\ threads = << StdResolver(TRUE, TRUE, DEFAULT_MAX_SUGGESTIONS, 0,
                                None, None) >>
    /\ last = [op |-> "new", kind |-> "Ok"]
    /\ fs = EmptyMap /\ dep = None /\ now = 0
    /\ fs_options = CHOOSE o \in OptionSets : TRUE
    /\ memory_cache = EmptyMap /\ cache_files = EmptyMap
    /\ index_file = None /\ index = EmptyIndex
    /\ script = <<>> /\ invalidated = {} /\ cleared = FALSE
    /\ budget = CHOOSE b \in Budgets : TRUE

StdFrame ==
    UNCHANGED <<env, fs_options, memory_cache, cache_files, index_file,
                index, script, invalidated, cleared, budget>>

with_externals(include) ==
    /\ threads' = [threads EXCEPT ![1].include_externals = include]
    /\ last' = [op |-> "with_externals", kind |-> "Ok"]
    /\ StdFrame

with_builtins(include) ==
    /\ threads' = [threads EXCEPT ![1].include_builtins = include]
    /\ last' = [op |-> "with_builtins", kind |-> "Ok"]
    /\ StdFrame

max_suggestions(max) ==
    /\ threads' = [threads EXCEPT ![1].max_suggestions = max]
    /\ last' = [op |-> "max_suggestions", kind |-> "Ok"]
    /\ StdFrame

GetStdItems ==
    LET r == threads[1]
        items == get_std_items(r.include_externals, r.include_builtins)
    IN /\ r.calls < MaxCalls
       /\ threads' = [threads EXCEPT
             ![1].calls = r.calls + 1,
             ![1].items = Some([items |-> items,
                                include_externals |-> r.include_externals]),
             ![1].previous = r.items]
       /\ last' = [op |-> "get_std_items", kind |-> "Ok"]
       /\ StdFrame

NextStd ==
    \/ \E include \in BOOLEAN : with_externals(include)
    \/ \E include \in BOOLEAN : with_builtins(include)
    \/ \E max \in 0..MaxSuggestions : max_suggestions(max)
    \/ GetStdItems

SpecStd == InitStd /\ [][NextStd]_vars

\* ============================================================== properties
\* The entry that a get of key would be served from: the hot tier's, else
\* the decodable disk file's.
HasStored(key) ==
    \/ key \in DOMAIN memory_cache
    \/ key \in DOMAIN cache_files /\ cache_files[key].ok
Stored(key) ==
    IF key \in DOMAIN memory_cache THEN memory_cache[key]
    ELSE cache_files[key].data[1]

\* C1: put(P, A, B, M) followed immediately by get(P) returns an entry whose
\* file_hash is calculate_hash of the file's content and whose metadata is M.
RoundTrip ==
    [][\A p \in Paths, h \in Payloads, m \in Payloads, md \in Metadatas :
         (last'.op = "put" /\ fs[CanonOf(p)] # None /\ Put(p, h, m, md, "none"))
           => /\ (get(p).kind)' = "Some"
              /\ (get(p).val[1].file_hash)' = calculate_hash(fs[CanonOf(p)][1])
              /\ (get(p).val[1].metadata)' = md]_vars

RoundTripWitness ==
    /\ last = [op |-> "put", kind |-> "Ok"]
    /\ \E p \in Paths : KeyOk(p) /\ get(p).kind = "Some"
                        /\ get(p).val[1].metadata.dependencies # <<>>

\* C2: from a fresh cache, get(P) (miss), put(P), get(P) (hit) leaves
\* stats.hits = 1 and stats.misses = 1.
StatsAccounting ==
    script.phase = 3 => index.stats.hits = 1 /\ index.stats.misses = 1

\* C3: when the file's bytes differ from the ones the stored entry was put
\* for, get(P) returns None and the disk-tier file for the key is gone.
InvalidationOnContentChange ==
    [][\A p \in Paths :
         (last'.op = "get" /\ Get(p) /\ KeyOk(p) /\ HasStored(get_cache_key(p))
            /\ Stored(get_cache_key(p)).file_hash
                 # calculate_hash(fs[CanonOf(p)][1]))
           => /\ get(p).kind = "None"
              /\ get_cache_key(p) \notin DOMAIN cache_files']_vars

\* The entry is current but for its age: content and dependencies unchanged.
CurrentButAge(p, entry) ==
    /\ entry.file_hash = calculate_hash(fs[CanonOf(p)][1])
    /\ DepsFresh(entry.metadata.dependencies, entry.created_at)

\* C4: with max_age_secs = T > 0 an entry put at t0 is returned by a get at
\* t0+T-1 and not returned (None) by a get at t0+T+1, whichever tier serves.
AgeExpiry ==
    [][\A p \in Paths :
         (last'.op = "get" /\ Get(p) /\ KeyOk(p) /\ HasStored(get_cache_key(p))
            /\ fs_options.max_age_secs > 0
            /\ CurrentButAge(p, Stored(get_cache_key(p))))
           => LET e == Stored(get_cache_key(p))
                  T == fs_options.max_age_secs
              IN /\ now = e.created_at + T - 1
                      => get(p).kind = "Some" /\ get(p).val = Some(e)
                 /\ now = e.created_at + T + 1 => get(p).kind = "None"]_vars

\* C5: an entry with a dependency whose modification time is later than the
\* entry's created_at is not returned by the next get (None), whichever tier
\* holds it.
DependencyFreshness ==
    [][\A p \in Paths :
         (last'.op = "get" /\ Get(p) /\ KeyOk(p) /\ HasStored(get_cache_key(p))
            /\ Stored(get_cache_key(p)).metadata.dependencies # <<>>
            /\ dep.exists
            /\ dep.mtime > Stored(get_cache_key(p)).created_at)
           => get(p).kind = "None"]_vars

\* C6: a get that finds an undecodable disk-tier file returns None (a miss,
\* not an error) and deletes the file.
CorruptEntryIsMiss ==
    [][\A p \in Paths :
         (last'.op = "get" /\ Get(p) /\ KeyOk(p)
            /\ get_cache_key(p) \notin DOMAIN memory_cache
            /\ get_cache_key(p) \in DOMAIN cache_files
            /\ ~cache_files[get_cache_key(p)].ok)
           => /\ get(p).kind = "None"
              /\ get_cache_key(p) \notin DOMAIN cache_files']_vars

\* C7: a put that fails with a filesystem error returns the error and leaves
\* the index and the hot tier as they were.
PutErrorLeavesIndex ==
    [][\A p \in Paths, h \in Payloads, m \in Payloads, md \in Metadatas,
          f \in PutFaults :
         (last'.op = "put" /\ (fs[CanonOf(p)] = None \/ f # "none")
            /\ Put(p, h, m, md, f))
           => /\ last'.kind = "Err"
              /\ index' = index
              /\ memory_cache' = memory_cache]_vars

PutErrorWitness ==
    /\ last = [op |-> "put", kind |-> "Err"]
    /\ index.stats.misses = 1
    /\ \E k \in DOMAIN cache_files : ~cache_files[k].ok

\* C8: a get that finds neither a hot-tier entry nor a disk-tier file returns
\* None and changes neither the index (statistics included) nor the tiers.
GetMissIsSilent ==
    [][\A p \in Paths :
         (last'.op = "get" /\ Get(p) /\ KeyOk(p)
            /\ get_cache_key(p) \notin DOMAIN memory_cache
            /\ get_cache_key(p) \notin DOMAIN cache_files)
           => /\ last'.kind = "None"
              /\ index' = index
              /\ memory_cache' = memory_cache
              /\ cache_files' = cache_files]_vars

GetMissWitness ==
    /\ last = [op |-> "get", kind |-> "None"]
    /\ index.stats.misses = 1
    /\ \E p \in Paths : get_cache_key(p) \notin DOMAIN memory_cache
                        /\ get_cache_key(p) \notin DOMAIN cache_files

\* What get answers for the paths of a key that no tier may serve: never an
\* entry, and None whenever the path canonicalizes.
GetAnswersNone(key) ==
    \A p \in Paths :
        get_cache_key(p) = key
          => get(p).kind # "Some" /\ (KeyOk(p) => get(p).kind = "None")

SizeLimitAfterPut ==
    (last = [op |-> "put", kind |-> "Ok"] /\ fs_options.max_size_bytes > 0)
      => index.stats.size_bytes <= fs_options.max_size_bytes

\* C12: the hot tier never holds more than max_memory_entries entries.
HotTierBounded ==
    Cardinality(DOMAIN memory_cache) <= fs_options.max_memory_entries

\* C13: the cache file that a successful put wrote decodes to the entry put,
\* and a newly constructed instance (empty hot tier, whatever the index
\* file) returns the decodable disk-tier entry from get(P) whenever the
\* file content, the dependencies and the age still make it valid.
EntryDurable ==
    /\ [][\A p \in Paths, h \in Payloads, m \in Payloads, md \in Metadatas :
            (last'.op = "put" /\ fs[CanonOf(p)] # None /\ Put(p, h, m, md, "none"))
              => /\ get_cache_key(p) \in DOMAIN cache_files'
                 /\ cache_files'[get_cache_key(p)].ok
                 /\ cache_files'[get_cache_key(p)].data
                      = Some(NewEntry(fs[CanonOf(p)][1], h, m, md))]_vars
    /\ [][Restart
            => \A p \in Paths :
                 (KeyOk(p) /\ get_cache_key(p) \in DOMAIN cache_files
                    /\ cache_files[get_cache_key(p)].ok
                    /\ is_entry_valid(p, cache_files[get_cache_key(p)].data[1]))
                   => /\ (get(p).kind)' = "Some"
                      /\ (get(p).val)' = cache_files[get_cache_key(p)].data]_vars

EntryDurableWitness ==
    /\ last = [op |-> "new", kind |-> "Ok"]
    /\ index_file = None
    /\ index = EmptyIndex
    /\ memory_cache = EmptyMap
    /\ \E p \in Paths : KeyOk(p) /\ get(p).kind = "Some"

\* C14: when save_index() has returned the index file holds the in-memory
\* index, and a newly constructed instance starts with the index of the
\* index file (same version): file_to_key, entries and statistics; with no
\* index file it starts empty, whatever the session before had put.
IndexRoundTrip ==
    /\ last.op = "save_index" => index_file = Some(index)
    /\ (last.op = "new" /\ index_file = None) => index = EmptyIndex
    /\ (last.op = "new" /\ index_file # None
          /\ index_file[1].version = CACHE_VERSION)
         => /\ index.file_to_key = index_file[1].file_to_key
            /\ index.entries = index_file[1].entries
            /\ index.stats = index_file[1].stats

IndexRoundTripWitness ==
    /\ last.op = "new"
    /\ index_file # None
    /\ index_file[1].version = CACHE_VERSION
    /\ index.stats.misses = 2
    /\ index.stats.hits = 1
    /\ index.entries # EmptyMap

SpellingsShareKey ==
    [][\A p1 \in Paths, p2 \in Paths, h \in Payloads, m \in Payloads,
          md \in Metadatas :
         (last'.op = "put" /\ p1 # p2 /\ CanonOf(p1) = CanonOf(p2)
            /\ fs[CanonOf(p1)] # None /\ Put(p1, h, m, md, "none"))
           => /\ get_cache_key(p1) = get_cache_key(p2)
              /\ (get(p2).kind)' = "Some"
              /\ (get(p2).val)' = Some(NewEntry(fs[CanonOf(p1)][1], h, m, md))
              /\ (invalidate(p2).kind)' = "Ok"
              /\ get_cache_key(p1) \notin DOMAIN (invalidate(p2).st.memory_cache)'
              /\ get_cache_key(p1) \notin DOMAIN (invalidate(p2).st.cache_files)']_vars

SpellingsShareKeyWitness ==
    /\ last = [op |-> "invalidate", kind |-> "Ok"]
    /\ index.stats.misses = 1
    /\ DOMAIN index.file_to_key = {"a.rs"}
    /\ index.entries = EmptyMap
    /\ memory_cache = EmptyMap
    /\ cache_files = EmptyMap

\* C17: a get running beside a put that overwrites the entry of the same key
\* never reads a partially written cache file and never fails because of
\* one: the bytes it read decode, and it does not return an error.
GetNeverSeesPartialWrite ==
    \A t \in DOMAIN threads :
        /\ threads[t].pc = "get_decode" => threads[t].buf[1].ok
        /\ threads[t].ret # "Err"

\* C18: a resolve_project that began with no entry for the resolution key
\* in either tier, and whose computation did not fail, returns Ok with the
\* computed catalog and leaves an entry for the key whose mir_data is the
\* stored form of the empty payload.
ResolveMissStores ==
    (last.op = "resolve_project" /\ ResolverIsIdle /\ ~threads[1].had
       /\ threads[1].why # "impl")
      => /\ threads[1].ret = "Ok"
         /\ threads[1].computed
         /\ HasStored(get_cache_key(ResolutionPath))
         /\ Stored(get_cache_key(ResolutionPath)).mir_data
              = IF fs_options.compress_data THEN compress(<<>>) ELSE <<>>

\* C19: a resolve_project that finds a valid entry stored by an earlier
\* resolve_project returns the result stored in it without running
\* resolve_project_impl, with compression on or off.
ResolveHitReturnsStored ==
    [][(ResolveLookup /\ get(ResolutionPath).kind = "Some")
         => /\ threads'[1].pc = "idle"
            /\ threads'[1].ret = "Ok"
            /\ ~threads'[1].computed
            /\ \E c \in Catalogs :
                  /\ threads'[1].val = Some(c)
                  /\ get(ResolutionPath).val[1].hir_data
                       = IF fs_options.compress_data
                         THEN compress(bincode_result(c))
                         ELSE bincode_result(c)]_vars

\* C20: find_matches_for_types returns at most max_suggestions matches, and
\* every match it returns has a confidence greater than 0.3.
MatchesBoundedAndRelevant ==
    \A t \in DOMAIN threads :
        (last.op = "find_matches_for_types" /\ threads[t].ret = "Ok")
          => /\ Len(threads[t].matches) <= threads[t].max_suggestions
             /\ \A i \in 1..Len(threads[t].matches) :
                   threads[t].matches[i].confidence > Threshold

\* A call that dropped a candidate at the threshold and truncated the rest.
MatchesBoundedWitness ==
    /\ last = [op |-> "find_matches_for_types", kind |-> "Ok"]
    /\ threads[1].max_suggestions = 2
    /\ Len(threads[1].matches) = 2
    /\ Len(threads[1].resolution[1]) = 3
    /\ \E u \in 1..Len(threads[1].unresolved_types),
          i \in 1..Len(threads[1].resolution[1]) :
         calculate_match_score(threads[1].unresolved_types[u],
                               threads[1].resolution[1][i]).confidence = Threshold
    /\ Len(AllMatches(threads[1].unresolved_types, threads[1].resolution[1])) > 2

\* The inputs and the candidates of the call that returned.
CallTypes == threads[1].unresolved_types
CallItems == threads[1].resolution[1]
Candidates == AllMatches(CallTypes, CallItems)
Count(seq, x) == Cardinality({i \in 1..Len(seq) : seq[i] = x})

\* C21: the matches returned are in non-decreasing order of confidence and
\* are the first max_suggestions of the candidates above the threshold
\* sorted ascending: as many as fit, each a candidate, and no candidate left
\* out has a lower confidence than one returned.
MatchesAscendingPrefix ==
    (last = [op |-> "find_matches_for_types", kind |-> "Ok"])
      => LET ms == threads[1].matches
             k == threads[1].max_suggestions
         IN /\ \A i \in 1..Len(ms), j \in 1..Len(ms) :
                  i < j => ms[i].confidence <= ms[j].confidence
            /\ Len(ms) = Min2(k, Len(Candidates))
            /\ \A i \in 1..Len(ms) : Count(ms, ms[i]) <= Count(Candidates, ms[i])
            /\ \A c \in 1..Len(Candidates), i \in 1..Len(ms) :
                  Count(Candidates, Candidates[c]) > Count(ms, Candidates[c])
                    => Candidates[c].confidence >= ms[i].confidence

MatchesAscendingWitness ==
    /\ last = [op |-> "find_matches_for_types", kind |-> "Ok"]
    /\ threads[1].max_suggestions = 2
    /\ Len(Candidates) = 3
    /\ Candidates[1].confidence > Candidates[2].confidence
    /\ Candidates[2].confidence > Candidates[3].confidence
    /\ threads[1].matches = <<Candidates[3], Candidates[2]>>

\* C22: find_best_import returns the match of highest confidence among the
\* matches for the type name, and "null" when there is none.
BestImportIsHighest ==
    (last = [op |-> "find_best_import", kind |-> "Ok"])
      => IF Candidates = <<>> THEN threads[1].matches = <<>>
         ELSE /\ Len(threads[1].matches) = 1
              /\ \A c \in 1..Len(Candidates) :
                    Candidates[c].confidence <= threads[1].matches[1].confidence

\* The rule cascade of the specification, one rule per line: the result is
\* that of the first rule whose condition holds.
CascadeRule(search, item) ==
    IF search = item.name THEN 1
    ELSE IF starts_with(item.name, search) THEN 2
    ELSE IF ends_with(item.name, search) THEN 3
    ELSE IF edit_distance(search, item.name) <= 2 /\ Len(item.name) > 0 THEN 4
    ELSE IF contains(to_lowercase(item.full_path), to_lowercase(search)) THEN 5
    ELSE 6

\* C23: calculate_match_score gives, for every type name and item of the
\* call, the result of the first rule of the cascade that applies; a search
\* that is the name plus one character gives EditDistance{1}.
ScoreIsCascade ==
    (last.op = "find_matches_for_types" /\ threads[1].resolution # None)
      => \A u \in 1..Len(CallTypes), i \in 1..Len(CallItems) :
           LET search == CallTypes[u]
               item == CallItems[i]
               sc == calculate_match_score(search, item)
               rule == CascadeRule(search, item)
               d == edit_distance(search, item.name)
           IN /\ rule = 1 => sc = Score(Tenths(10), MatchType("ExactName", 0))
              /\ rule = 2 => sc = Score(Tenths(8), MatchType("EditDistance", 0))
              /\ rule = 3 => sc = Score(Tenths(7), MatchType("EditDistance", 0))
              /\ rule = 4 =>
                    /\ sc.match_type = MatchType("EditDistance", d)
                    /\ sc.confidence * Len(item.name)
                         = Tenths(6) * (Len(item.name) - d)
              /\ rule = 5 => sc = Score(Tenths(4), MatchType("TypeMatches", 0))
              /\ rule = 6 => sc = Score(0, MatchType("TypeMatches", 0))
              /\ (Len(search) = Len(item.name) + 1
                    /\ SubSeq(search, 1, Len(item.name)) = item.name)
                   => sc.match_type = MatchType("EditDistance", 1)

\* A call that met the exact, edit-distance, path and no-match rules, the
\* edit-distance one by a name plus one character.
ScoreIsCascadeWitness ==
    /\ last = [op |-> "find_matches_for_types", kind |-> "Ok"]
    /\ \A rule \in {1, 4, 5, 6} :
         \E u \in 1..Len(CallTypes), i \in 1..Len(CallItems) :
            CascadeRule(CallTypes[u], CallItems[i]) = rule
    /\ \E u \in 1..Len(CallTypes), i \in 1..Len(CallItems) :
         CallTypes[u] = Append(CallItems[i].name, "p")

\* The Levenshtein distance by its definition: the cheapest of deleting,
\* inserting and substituting (or keeping) the first character.
RECURSIVE Levenshtein(_, _)
Levenshtein(a, b) ==
    IF a = <<>> THEN Len(b)
    ELSE IF b = <<>> THEN Len(a)
    ELSE Min2(Min2(1 + Levenshtein(Tail(a), b), 1 + Levenshtein(a, Tail(b))),
              (IF Head(a) = Head(b) THEN 0 ELSE 1)
                + Levenshtein(Tail(a), Tail(b)))

\* C24: edit_distance is the Levenshtein distance for every type name and
\* item name of the call, in both orders, and for the empty string:
\* edit_distance("", b) = len(b), edit_distance(a, "") = len(a),
\* edit_distance(a, a) = 0 and edit_distance(a, b) = edit_distance(b, a).
EditDistanceIsLevenshtein ==
    (last.op = "find_matches_for_types" /\ threads[1].resolution # None)
      => \A u \in 1..Len(CallTypes), i \in 1..Len(CallItems) :
           LET a == CallTypes[u]
               b == CallItems[i].name
           IN /\ edit_distance(a, b) = Levenshtein(a, b)
              /\ edit_distance(b, a) = Levenshtein(b, a)
              /\ edit_distance(a, b) = edit_distance(b, a)
              /\ edit_distance(<<>>, b) = Len(b)
              /\ edit_distance(a, <<>>) = Len(a)
              /\ edit_distance(a, a) = 0
              /\ edit_distance(b, b) = 0

EditDistanceWitness ==
    /\ last = [op |-> "find_matches_for_types", kind |-> "Ok"]
    /\ \E u \in 1..Len(CallTypes), i \in 1..Len(CallItems) :
         /\ edit_distance(CallTypes[u], CallItems[i].name) = 1
         /\ Len(CallTypes[u]) = Len(CallItems[i].name)
    /\ \E u \in 1..Len(CallTypes), i \in 1..Len(CallItems) :
         edit_distance(CallTypes[u], CallItems[i].name) = 4

\* C25: every confidence that calculate_match_score computes for a type
\* name and an item of the call lies in [0, 1].
ConfidenceInUnitRange ==
    (last.op = "find_matches_for_types" /\ threads[1].resolution # None)
      => \A u \in 1..Len(CallTypes), i \in 1..Len(CallItems) :
           LET sc == calculate_match_score(CallTypes[u], CallItems[i])
           IN 0 <= sc.confidence /\ sc.confidence <= ConfidenceScale

\* Whether a catalog holds an entry of that path and source.
HasEntry(items, full_path, source) ==
    \E i \in 1..Len(items) :
       items[i].full_path = full_path /\ items[i].source = source

\* C26: get_std_items returns the same catalog as the call before it made
\* under the same include_externals, whatever the other options; the
\* catalog always holds std::collections::HashMap and core::option::Option,
\* and holds External entries exactly when include_externals is set.
StdItemsFixed ==
    (last.op = "get_std_items")
      => LET r == threads[1]
             items == r.items[1].items
         IN /\ HasEntry(items, "std::collections::HashMap", "Std")
            /\ HasEntry(items, "core::option::Option", "Core")
            /\ (\E i \in 1..Len(items) : items[i].source = "External")
                  <=> r.include_externals
            /\ (r.previous # None
                  /\ r.previous[1].include_externals = r.include_externals)
                 => r.previous[1].items = items

\* A second call under the same include_externals, without builtins and
\* with another max_suggestions than the default.
StdItemsFixedWitness ==
    /\ last.op = "get_std_items"
    /\ threads[1].previous # None
    /\ threads[1].previous[1].include_externals = FALSE
    /\ ~threads[1].include_externals
    /\ ~threads[1].include_builtins
    /\ threads[1].max_suggestions = 0

\* C27: a put that succeeds adds 1 to stats.misses, 1 to stats.entry_count
\* and the length of the file it wrote to stats.size_bytes, whether or not
\* the key was in the index before, and leaves stats.hits as it was.
PutCounts ==
    [][\A p \in Paths, h \in Payloads, m \in Payloads, md \in Metadatas :
         (Put(p, h, m, md, "none") /\ last'.kind = "Ok")
           => /\ index'.stats.misses = index.stats.misses + 1
              /\ index'.stats.entry_count = index.stats.entry_count + 1
              /\ index'.stats.size_bytes
                   = index.stats.size_bytes + cache_files'[get_cache_key(p)].len
              /\ cache_files'[get_cache_key(p)].len
                   = SerializedLen(memory_cache'[get_cache_key(p)])
              /\ index'.stats.hits = index.stats.hits]_vars

\* A put of a key that was in the index already has succeeded.
PutCountsWitness ==
    /\ last = [op |-> "put", kind |-> "Ok"]
    /\ index.stats.entry_count = 2
    /\ index.stats.misses = 2
    /\ Cardinality(DOMAIN index.entries) = 1

RECURSIVE StoredSize(_)
StoredSize(keys) ==
    IF keys = {} THEN 0
    ELSE LET key == CHOOSE k \in keys : TRUE
         IN (IF key \in DOMAIN cache_files THEN cache_files[key].len ELSE 0)
              + StoredSize(keys \ {key})

\* C28: after any sequence of put, invalidate and clear on a new cache,
\* stats.entry_count is the number of keys in index.entries and
\* stats.size_bytes is the total length of the cache files of those keys.
StatsMatchEntries ==
    /\ index.stats.entry_count = Cardinality(DOMAIN index.entries)
    /\ index.stats.size_bytes = StoredSize(DOMAIN index.entries)

\* C29: every key in index.entries has its cache file in the disk tier.
IndexedEntriesHaveFiles ==
    \A key \in DOMAIN index.entries : key \in DOMAIN cache_files

\* C30: a thread in put, invalidate or clear holds the index write lock
\* only around the update of the index: no step that reads, writes,
\* deletes or lists files is taken with the lock held, and the lock is held
\* only at the index update of the three operations.
NoFileIOUnderIndexLock ==
    \A t \in DOMAIN threads :
        /\ ~(threads[t].lock /\ threads[t].io)
        /\ (threads[t].lock /\ threads[t].pc \notin {"get_index", "get_unlock"})
             => threads[t].pc \in {"put_index", "put_index_stats", "put_unlock",
                                   "invalidate_index", "invalidate_unlock",
                                   "clear_index", "clear_unlock"}

\* One thread holds the lock in put while the other has just removed a
\* file in invalidate or clear.
NoFileIOUnderIndexLockWitness ==
    \E t \in DOMAIN threads, u \in DOMAIN threads :
        /\ threads[t].lock /\ threads[t].pc = "put_unlock"
        /\ threads[u].io /\ threads[u].pc \in {"invalidate_lock", "clear_lock"}
        /\ last.op \in {"put", "invalidate", "clear"}

\* get(p) has to read the disk tier: the hot tier has no entry for the key
\* and the cache file decodes.
ServedFromDisk(p) ==
    /\ KeyOk(p)
    /\ get_cache_key(p) \notin DOMAIN memory_cache
    /\ get_cache_key(p) \in DOMAIN cache_files
    /\ cache_files[get_cache_key(p)].ok

\* The entry fails a validity check: the content fingerprint differs, the
\* age is exceeded, or a dependency is missing or newer than the entry.
FailsValidity(p, entry) ==
    \/ entry.file_hash # calculate_hash(fs[CanonOf(p)][1])
    \/ fs_options.max_age_secs > 0
         /\ now - entry.created_at > fs_options.max_age_secs
    \/ entry.metadata.dependencies # <<>>
         /\ (~dep.exists \/ dep.mtime > entry.created_at)

FileToKeyInEntries ==
    \A p \in DOMAIN index.file_to_key :
        index.file_to_key[p] \in DOMAIN index.entries

\* C36: when an item's name equals one of the unresolved names and
\* max_suggestions >= 1, the result of find_matches_for_types holds that
\* item as an exact match (confidence 1.0, ExactName).
ExactMatchKept ==
    (last = [op |-> "find_matches_for_types", kind |-> "Ok"]
       /\ threads[1].max_suggestions >= 1)
      => \A u \in 1..Len(CallTypes), i \in 1..Len(CallItems) :
           CallItems[i].name = CallTypes[u]
             => \E k \in 1..Len(threads[1].matches) :
                  threads[1].matches[k]
                    = [item |-> CallItems[i], confidence |-> Tenths(10),
                       match_type |-> MatchType("ExactName", 0)]

\* C37: a put(P, A, B, M) that succeeds is followed by a get(P) that
\* returns an entry whose hir_data is A and whose mir_data is B, with
\* compress_data false or true.
PayloadRoundTrip ==
    [][\A p \in Paths, h \in ConcPayloads, md \in Metadatas :
         (last'.op = "put" /\ last'.kind = "Ok" /\ Put(p, h, <<>>, md, "none"))
           => /\ (get(p).kind)' = "Some"
              /\ (get(p).val[1].hir_data)' = h
              /\ (get(p).val[1].mir_data)' = <<>>]_vars

\* C38: a get served from the disk tier, for an entry created after the
\* current time and current in content and dependencies, does not wrap or
\* abort in the age check and returns the entry.
AgeCheckNoUnderflow ==
    [][\A p \in Paths :
         (last'.op = "get" /\ Get(p) /\ ServedFromDisk(p)
            /\ now < cache_files[get_cache_key(p)].data[1].created_at
            /\ CurrentButAge(p, cache_files[get_cache_key(p)].data[1]))
           => last'.kind = "Some"]_vars

\* C39: with the source file of P deleted, invalidate(P) returns Ok and
\* leaves no hot-tier entry, cache file or index entry of P, and get(P)
\* returns None.
DeletedSourceHandled ==
    [][\A p \in Paths :
         /\ (last'.op = "invalidate" /\ Invalidate(p) /\ ~KeyOk(p))
              => /\ last'.kind = "Ok"
                 /\ get_cache_key(p) \notin DOMAIN memory_cache'
                 /\ get_cache_key(p) \notin DOMAIN cache_files'
                 /\ get_cache_key(p) \notin DOMAIN index'.entries
         /\ (last'.op = "get" /\ Get(p) /\ ~KeyOk(p))
              => last'.kind = "None"]_vars

\* The statistics as the last completed index update left them: those a
\* thread holding the write lock found, else the current ones.
CommittedStats ==
    IF \E t \in DOMAIN threads : threads[t].lock
    THEN (threads[CHOOSE t \in DOMAIN threads : threads[t].lock]).buf[1]
    ELSE index.stats

\* C31: the value that stats() returns is the statistics after a whole
\* number of completed index updates, never those of an update in progress
\* in another thread.
StatsIsConsistentSnapshot ==
    [][\A t \in Threads :
         (last'.op = "stats" /\ StatsRead(t))
           => threads'[t].buf = Some(CommittedStats)]_vars

\* stats() has returned the statistics of one completed put while the other
\* thread is inside a put.
StatsSnapshotWitness ==
    /\ last = [op |-> "stats", kind |-> "Ok"]
    /\ \E t \in DOMAIN threads, u \in DOMAIN threads :
         /\ threads[t].ret = "Ok" /\ threads[t].buf # None
         /\ threads[t].buf[1].misses = 1 /\ threads[t].buf[1].entry_count = 1
         /\ threads[u].pc \in {"put_write", "put_lock"}

\* C33: once every call has returned, an entry that the hot tier holds for
\* the key is the entry that the cache file of the key holds.
TiersCoherentAtRest ==
    ((\A t \in DOMAIN threads : threads[t].pc = "idle")
       /\ get_cache_key(ConcPath) \in DOMAIN memory_cache)
      => /\ get_cache_key(ConcPath) \in DOMAIN cache_files
         /\ cache_files[get_cache_key(ConcPath)].data
              = Some(memory_cache[get_cache_key(ConcPath)])

\* No thread holds the compressor lock together with the index lock, or the
\* index lock to read and to write at once.
NoNestedLocks ==
    \A t \in DOMAIN threads :
        /\ ~(threads[t].compressor /\ (threads[t].lock \/ threads[t].read))
        /\ ~(threads[t].lock /\ threads[t].read)

\* C34: no thread holds the compressor lock and the index lock at the same
\* time or takes a lock it holds, and under fair scheduling every call of
\* get, put, invalidate, clear, stats and save_index returns.
DeadlockFree ==
    /\ []NoNestedLocks
    /\ \A t \in Threads : (threads[t].pc # "idle") ~> (threads[t].pc = "idle")

\* A put has returned after one thread held the compressor lock while the
\* other held the index write lock.
DeadlockFreeWitness ==
    /\ last = [op |-> "put", kind |-> "Ok"]
    /\ \E t \in DOMAIN threads, u \in DOMAIN threads :
         threads[t].compressor /\ threads[u].lock

====
